---- MODULE Spec2Model ----
(***************************************************************************)
(* State-machine model of the turn-based battle engine of                  *)
(* astrbot_plugin_elves_world (src/core/battle/*.py, src/core/formulas.py).*)
(*                                                                         *)
(* BattleSystem.process_turn is modelled step by step: one action per      *)
(* helper it calls, in the fixed order of the code (pc is the position     *)
(* inside process_turn; pc = "idle" means no call is running).  Every      *)
(* random.random() draw of the code is a nondeterministic choice among     *)
(* the outcomes the draw can produce.  Python's None status is "none",     *)
(* list indices stay 0-based as in the source (team[i + 1] is the i-th     *)
(* member).                                                                *)
(***************************************************************************)
EXTENDS Integers, Sequences, FiniteSets, TLC

VARIABLES
    battle_type,          \* BattleState.battle_type
    player_team,          \* BattleState.player_team (sequence of monster records)
    player_active_index,  \* BattleState.player_active_index
    enemy_team,           \* BattleState.enemy_team
    enemy_active_index,   \* BattleState.enemy_active_index
    weather,              \* BattleState.weather
    weather_turns,        \* BattleState.weather_turns (0 = permanent)
    turn_count,           \* BattleState.turn_count
    is_active,            \* BattleState.is_active
    can_flee,             \* BattleState.can_flee
    can_catch,            \* BattleState.can_catch
    player_stat_stages,   \* BattleState.player_stat_stages
    enemy_stat_stages,    \* BattleState.enemy_stat_stages
    exp_gained,           \* BattleState.exp_gained
    coins_gained,         \* BattleState.coins_gained
    items_dropped,        \* BattleState.items_dropped
    inventory,            \* capture tools held by the player (PlayerManager)
    result,               \* the TurnResult of the running / last process_turn call
    pc,                   \* position inside process_turn
    first_action,         \* process_turn local: first_action
    second_action,        \* process_turn local: second_action
    first_is_player       \* process_turn local: first_is_player

vars == <<battle_type, player_team, player_active_index, enemy_team,
          enemy_active_index, weather, weather_turns, turn_count, is_active,
          can_flee, can_catch, player_stat_stages, enemy_stat_stages,
          exp_gained, coins_gained, items_dropped, inventory, result, pc,
          first_action, second_action, first_is_player>>

(***************************************************************************)
(* Bounds of the model.                                                    *)
(***************************************************************************)
\* process_turn is not called again once turn_count has reached MaxTurns
MaxTurns == 2

(***************************************************************************)
(* Arithmetic helpers: Python's int() truncates toward zero, max and min.  *)
(***************************************************************************)
Max(a, b) == IF a >= b THEN a ELSE b

Min(a, b) == IF a <= b THEN a ELSE b

\* int(n / d) of Python for d > 0: truncation toward zero
TruncDiv(n, d) == IF n >= 0 THEN n \div d ELSE -((-n) \div d)

(***************************************************************************)
(* constants.py                                                            *)
(***************************************************************************)
STAT_STAGE_MIN == -6

STAT_STAGE_MAX == 6

BURN_DAMAGE_FRACTION == 16

POISON_DAMAGE_FRACTION == 8

BASE_COIN_REWARD == 50

COIN_PER_LEVEL == 10

BOSS_COIN_MULTIPLIER == 5

DEFAULT_BASE_EXP == 100

MIN_STAT_VALUE == 1

DEFAULT_REGEN_DURATION == 3

DEFAULT_SHIELD_DURATION == 3

DEFAULT_CONFUSE_DURATION == 3

DEFAULT_BUFF_DURATION == 3

\* the keys of BattleState.player_stat_stages / enemy_stat_stages
StageStats == {"attack", "defense", "sp_attack", "sp_defense", "speed", "accuracy", "evasion"}

MODIFIABLE_STATS == StageStats \cup {"critical"}

STATUS_NAMES_CN == {"burn", "paralyze", "poison", "sleep", "freeze"}

\* STATUS_IMMUNITY: status -> the type that is immune ("" when there is none)
STATUS_IMMUNITY(status) ==
    CASE status = "burn" -> "fire"
      [] status = "freeze" -> "ice"
      [] status = "paralyze" -> "electric"
      [] status = "poison" -> "poison"
      [] OTHER -> ""

\* STAT_STAGE_MULTIPLIERS[stage] as the fraction <<numerator, denominator>>
STAT_STAGE_MULTIPLIERS(stage) ==
    IF stage < 0 THEN <<2, 2 - stage>> ELSE <<2 + stage, 2>>

\* ACCURACY_STAGE_MULTIPLIERS[stage] as the fraction <<numerator, denominator>>
ACCURACY_STAGE_MULTIPLIERS(stage) ==
    IF stage < 0 THEN <<3, 3 - stage>> ELSE <<3 + stage, 3>>

ZeroStages == [s \in StageStats |-> 0]

(***************************************************************************)
(* The read-only configuration the engine is run against                   *)
(* (ConfigManager.get_item / .types / .catch_config).  The tables below    *)
(* are one configuration; an id that is not listed is absent from it.      *)
(***************************************************************************)
\* config "skills": id -> skill data; an effect spec may omit chance, value,
\* duration and target, which the code then reads with a default
SkillTable ==
    [ tackle       |-> [power |-> 40, category |-> "physical", type |-> "normal",
                        accuracy |-> 100, priority |-> 0, effects |-> << >>],
      quick_attack |-> [power |-> 40, category |-> "physical", type |-> "normal",
                        accuracy |-> 100, priority |-> 1, effects |-> << >>],
      ember        |-> [power |-> 40, category |-> "special", type |-> "fire",
                        accuracy |-> 100, priority |-> 0,
                        effects |-> << [type |-> "burn", chance |-> 50] >>],
      absorb       |-> [power |-> 40, category |-> "special", type |-> "grass",
                        accuracy |-> 100, priority |-> 0,
                        effects |-> << [type |-> "drain", value |-> 50] >>],
      recover      |-> [power |-> 0, category |-> "status", type |-> "normal",
                        accuracy |-> 100, priority |-> 0,
                        effects |-> << [type |-> "heal", value |-> 50] >>],
      barrier      |-> [power |-> 0, category |-> "status", type |-> "normal",
                        accuracy |-> 100, priority |-> 0,
                        effects |-> << [type |-> "shield", value |-> 50, duration |-> 2] >>],
      aqua_ring    |-> [power |-> 0, category |-> "status", type |-> "water",
                        accuracy |-> 100, priority |-> 0,
                        effects |-> << [type |-> "regen", value |-> 25, duration |-> 2] >>],
      swords_dance |-> [power |-> 0, category |-> "status", type |-> "normal",
                        accuracy |-> 100, priority |-> 0,
                        effects |-> << [type |-> "attack_up", value |-> 2, target |-> "self"] >>],
      growl        |-> [power |-> 0, category |-> "status", type |-> "normal",
                        accuracy |-> 100, priority |-> 0,
                        effects |-> << [type |-> "attack_down"] >>],
      toxic        |-> [power |-> 0, category |-> "status", type |-> "poison",
                        accuracy |-> 90, priority |-> 0,
                        effects |-> << [type |-> "poison"] >>],
      hypnosis     |-> [power |-> 0, category |-> "status", type |-> "normal",
                        accuracy |-> 100, priority |-> 0,
                        effects |-> << [type |-> "sleep"] >>],
      thunder_wave |-> [power |-> 0, category |-> "status", type |-> "electric",
                        accuracy |-> 100, priority |-> 0,
                        effects |-> << [type |-> "paralyze"] >>],
      confuse_ray  |-> [power |-> 0, category |-> "status", type |-> "normal",
                        accuracy |-> 100, priority |-> 0,
                        effects |-> << [type |-> "confuse", duration |-> 2] >>] ]

\* config.get_item("skills", id) is None
HasSkill(skill_id) == skill_id \in DOMAIN SkillTable

\* config "types": attack type -> strong_against / weak_against
TypeChart ==
    [ fire     |-> [strong_against |-> {"grass", "ice"}, weak_against |-> {"fire", "water"}],
      water    |-> [strong_against |-> {"fire"}, weak_against |-> {"water", "grass"}],
      grass    |-> [strong_against |-> {"water"}, weak_against |-> {"fire", "grass"}],
      ice      |-> [strong_against |-> {"grass"}, weak_against |-> {"fire", "ice"}] ]

\* config "weathers": id -> dot_damage percent, dot_immune_types and the
\* per-type power_mod in percent (effects[type].power_mod * 100)
WeatherTable ==
    [ clear |-> [dot_damage |-> 0, dot_immune_types |-> {}, power_mod |-> << >>],
      sunny |-> [dot_damage |-> 0, dot_immune_types |-> {},
                 power_mod |-> [fire |-> 150, water |-> 50]],
      hail  |-> [dot_damage |-> 20, dot_immune_types |-> {"ice"}, power_mod |-> << >>] ]

\* config "items": id -> item data
ItemTable ==
    [ potion       |-> [type |-> "heal", heal_amount |-> 3],
      antidote     |-> [type |-> "cure_status"],
      full_restore |-> [type |-> "full_restore"],
      ball         |-> [type |-> "capture", capture_rate |-> 100],
      great_ball   |-> [type |-> "capture", capture_rate |-> 150] ]

HasItem(item_id) == item_id \in DOMAIN ItemTable

(***************************************************************************)
(* Monster dictionaries (MonsterInstance.to_dict) and the battle state.    *)
(* The combat-scoped "_xxx" keys of the source are the fields shield,      *)
(* shield_turns, regen, regen_turns, confused, confused_turns,             *)
(* drain_percent, buff, buff_turns, debuff, debuff_turns; a key that is    *)
(* absent in the source reads as 0 / False there and is 0 / FALSE here.    *)
(***************************************************************************)
NoPercents == [s \in MODIFIABLE_STATS |-> 0]

Monster(id, lvl, tps, mhp, spd, sks) ==
    [ instance_id |-> id, level |-> lvl, types |-> tps,
      stats |-> [hp |-> mhp, attack |-> 10, defense |-> 10, sp_attack |-> 10,
                 sp_defense |-> 10, speed |-> spd],
      current_hp |-> mhp, max_hp |-> mhp, status |-> "none", skills |-> sks,
      rarity |-> 3,
      shield |-> 0, shield_turns |-> 0, regen |-> 0, regen_turns |-> 0,
      confused |-> FALSE, confused_turns |-> 0, drain_percent |-> 0,
      buff |-> NoPercents, buff_turns |-> NoPercents,
      debuff |-> NoPercents, debuff_turns |-> NoPercents ]

\* the BattleState object as one record (the variables of the module)
Battle ==
    [ battle_type |-> battle_type,
      player_team |-> player_team, player_active_index |-> player_active_index,
      enemy_team |-> enemy_team, enemy_active_index |-> enemy_active_index,
      weather |-> weather, weather_turns |-> weather_turns,
      turn_count |-> turn_count, is_active |-> is_active,
      can_flee |-> can_flee, can_catch |-> can_catch,
      player_stat_stages |-> player_stat_stages,
      enemy_stat_stages |-> enemy_stat_stages,
      exp_gained |-> exp_gained, coins_gained |-> coins_gained,
      items_dropped |-> items_dropped ]

\* BattleState.enemy_is_wild, as create_wild_battle / create_boss_battle set it
enemy_is_wild(b) == b.battle_type = "wild"

\* BattleState.player_monster / enemy_monster (the model keeps both indices
\* inside their team, so the None branch of the properties is never taken)
player_monster(b) == b.player_team[b.player_active_index + 1]

enemy_monster(b) == b.enemy_team[b.enemy_active_index + 1]

ActiveMonster(b, is_player) == IF is_player THEN player_monster(b) ELSE enemy_monster(b)

\* b with the active monster of one side replaced by m (the code mutates the
\* dictionary in place)
SetActive(b, is_player, m) ==
    IF is_player
    THEN [b EXCEPT !.player_team[b.player_active_index + 1] = m]
    ELSE [b EXCEPT !.enemy_team[b.enemy_active_index + 1] = m]

StagesOf(b, is_player) == IF is_player THEN b.player_stat_stages ELSE b.enemy_stat_stages

\* BattleState.get_player_available_monsters / get_enemy_available_monsters:
\* the 0-based indices of the members with current_hp > 0
get_player_available_monsters(b) ==
    {i \in 0..(Len(b.player_team) - 1) : b.player_team[i + 1].current_hp > 0}

get_enemy_available_monsters(b) ==
    {i \in 0..(Len(b.enemy_team) - 1) : b.enemy_team[i + 1].current_hp > 0}

\* BattleState.reset_player_stat_stages / reset_enemy_stat_stages
reset_player_stat_stages(b) == [b EXCEPT !.player_stat_stages = ZeroStages]

reset_enemy_stat_stages(b) == [b EXCEPT !.enemy_stat_stages = ZeroStages]

(***************************************************************************)
(* formulas.py and damage_calculator.py                                    *)
(***************************************************************************)
RECURSIVE GCD(_, _)
GCD(a, b) == IF b = 0 THEN a ELSE GCD(b, a % b)

\* a fraction <<n, d>> of positive integers in lowest terms
Reduce(f) == LET g == GCD(f[1], f[2]) IN <<f[1] \div g, f[2] \div g>>

\* fractions <<n, d>> with d > 0
FracLess(f, g) == f[1] * g[2] < g[1] * f[2]

FracMax(f, g) == IF FracLess(f, g) THEN g ELSE f

FracMin(f, g) == IF FracLess(g, f) THEN g ELSE f

\* GameFormulas.get_type_effectiveness: the multiplier as a fraction; every
\* defender type doubles it (strong_against), halves it (weak_against) or
\* leaves it
RECURSIVE get_type_effectiveness(_, _)
get_type_effectiveness(attack_type, defender_types) ==
    IF defender_types = << >> THEN <<1, 1>>
    ELSE LET rest == get_type_effectiveness(attack_type, Tail(defender_types))
             def_type == Head(defender_types)
             strong == IF attack_type \in DOMAIN TypeChart
                       THEN TypeChart[attack_type].strong_against ELSE {}
             weak == IF attack_type \in DOMAIN TypeChart
                     THEN TypeChart[attack_type].weak_against ELSE {}
         IN IF def_type \in strong THEN Reduce(<<2 * rest[1], rest[2]>>)
            ELSE IF def_type \in weak THEN Reduce(<<rest[1], 2 * rest[2]>>)
            ELSE rest

\* DamageCalculator.get_weather_modifier, in percent (1.0 = 100)
get_weather_modifier(weather_id, skill_type) ==
    IF weather_id \notin DOMAIN WeatherTable THEN 100
    ELSE IF skill_type \in DOMAIN WeatherTable[weather_id].power_mod
         THEN WeatherTable[weather_id].power_mod[skill_type]
         ELSE 100

\* get_effective_stat without the max(MIN_STAT_VALUE, ...) of line 187
get_effective_stat_unfloored(b, is_player, stat_name) ==
    LET monster == ActiveMonster(b, is_player)
        base_value == IF stat_name \in DOMAIN monster.stats
                      THEN monster.stats[stat_name] ELSE 0
        stage == IF stat_name \in StageStats THEN StagesOf(b, is_player)[stat_name] ELSE 0
        multiplier == IF stat_name \in {"accuracy", "evasion"}
                      THEN ACCURACY_STAGE_MULTIPLIERS(stage)
                      ELSE STAT_STAGE_MULTIPLIERS(stage)
        staged == TruncDiv(base_value * multiplier[1], multiplier[2])
        buff_percent == monster.buff[stat_name]
        debuff_percent == monster.debuff[stat_name]
        buffed == IF buff_percent > 0
                  THEN TruncDiv(staged * (100 + buff_percent), 100) ELSE staged
        debuffed == IF debuff_percent > 0
                    THEN TruncDiv(buffed * (100 - debuff_percent), 100) ELSE buffed
    IN debuffed

\* DamageCalculator.get_effective_stat
get_effective_stat(b, is_player, stat_name) ==
    LET monster == ActiveMonster(b, is_player)
        base_value == IF stat_name \in DOMAIN monster.stats
                      THEN monster.stats[stat_name] ELSE 0
        stage == IF stat_name \in StageStats THEN StagesOf(b, is_player)[stat_name] ELSE 0
        multiplier == IF stat_name \in {"accuracy", "evasion"}
                      THEN ACCURACY_STAGE_MULTIPLIERS(stage)
                      ELSE STAT_STAGE_MULTIPLIERS(stage)
        staged == TruncDiv(base_value * multiplier[1], multiplier[2])
        buff_percent == monster.buff[stat_name]
        debuff_percent == monster.debuff[stat_name]
        buffed == IF buff_percent > 0
                  THEN TruncDiv(staged * (100 + buff_percent), 100) ELSE staged
        debuffed == IF debuff_percent > 0
                    THEN TruncDiv(buffed * (100 - debuff_percent), 100) ELSE buffed
    IN Max(MIN_STAT_VALUE, debuffed)

\* DamageCalculator.check_hit: the set of results the call can return.
\* final_accuracy = base_accuracy * acc_final_mult / max(0.01, eva_final_mult);
\* the draw random.random() * 100 lies in [0, 100), so a hit is possible iff
\* final_accuracy > 0 and a miss iff final_accuracy < 100
check_hit(b, is_player, base_accuracy) ==
    IF base_accuracy >= 100 THEN {TRUE}
    ELSE LET attacker == ActiveMonster(b, is_player)
             defender == ActiveMonster(b, ~is_player)
             acc_mult == ACCURACY_STAGE_MULTIPLIERS(StagesOf(b, is_player)["accuracy"])
             eva_mult == ACCURACY_STAGE_MULTIPLIERS(StagesOf(b, ~is_player)["evasion"])
             \* acc_final_mult = acc[1] / acc[2], eva_final_mult = eva0[1] / eva0[2]
             acc == Reduce(<<acc_mult[1] * (100 + attacker.buff["accuracy"])
                                         * (100 - attacker.debuff["accuracy"]),
                             acc_mult[2] * 10000>>)
             eva0 == Reduce(<<eva_mult[1] * (100 + defender.buff["evasion"])
                                          * (100 - defender.debuff["evasion"]),
                              eva_mult[2] * 10000>>)
             \* max(0.01, eva_final_mult)
             eva == FracMax(<<1, 100>>, eva0)
             final_accuracy == Reduce(<<base_accuracy * acc[1] * eva[2], acc[2] * eva[1]>>)
             positive == final_accuracy[1] > 0
             below100 == final_accuracy[1] < 100 * final_accuracy[2]
         IN (IF positive THEN {TRUE} ELSE {}) \cup (IF below100 THEN {FALSE} ELSE {})

\* DamageCalculator._check_critical: the set of results the call can return.
\* crit_chance in 1/10000: BASE_CRITICAL_RATE 0.0625, HIGH_CRITICAL_RATE 0.25,
\* MAX_CRITICAL_RATE 1.0
check_critical(skill, attacker) ==
    LET high == \E i \in 1..Len(skill.effects) : skill.effects[i].type = "crit_up"
        base == IF high THEN 2500 ELSE 625
        crit_buff == attacker.buff["critical"]
        crit_chance == IF crit_buff > 0 THEN Min(10000, base + crit_buff * 100) ELSE base
    IN {TRUE} \cup (IF crit_chance < 10000 THEN {FALSE} ELSE {})

\* GameFormulas.calculate_damage with random_factor=True: the set of damage
\* values the call can return.  final_damage = base_damage * modifiers *
\* random_mod with random_mod uniform in [0.85, 1.0], so every integer from
\* int(0.85 * x) to int(x) can come out, x being the damage without the
\* random factor; the result is at least 1, and 0 when skill_power <= 0
calculate_damage(attacker_level, attack_stat, defense_stat, skill_power, type_effectiveness, weather_mod, is_critical, is_stab) ==
    IF skill_power <= 0 THEN {0}
    ELSE LET \* base_damage = base_n / base_d
             base == Reduce(<<(2 * attacker_level + 10) * skill_power * attack_stat
                                + 500 * defense_stat,
                              250 * defense_stat>>)
             mods == Reduce(<<type_effectiveness[1] * weather_mod
                                * (IF is_critical THEN 3 ELSE 2)
                                * (IF is_stab THEN 3 ELSE 2),
                              type_effectiveness[2] * 100 * 2 * 2>>)
             x == Reduce(<<base[1] * mods[1], base[2] * mods[2]>>)
             hi == x[1] \div x[2]
             lo == (x[1] * 17) \div (x[2] * 20)
         IN Max(1, lo)..Max(1, hi)

\* Calls of calculate_damage(..., random_factor=False), as <<attacker_level,
\* attack_stat, defense_stat, skill_power, type_effectiveness, weather_mod,
\* is_critical, is_stab>>, whose product is mathematically an integer and
\* comes out below it in the binary floating point of the source: with
\* (2 * 5 / 5 + 2) * 40 * 10 / 9 / 50 + 2 = 5.555555555555555 the product
\* with the modifiers 4.5 is 24.999999999999996 instead of 25.  Every other
\* call made below returns the truncated exact value.
RoundedBelow ==
    { <<5, 10, 9, 40, <<2, 1>>, 100, TRUE, TRUE>>,
      <<5, 10, 9, 40, <<2, 1>>, 150, FALSE, TRUE>>,
      <<5, 10, 9, 40, <<4, 1>>, 100, TRUE, TRUE>>,
      <<5, 10, 9, 40, <<4, 1>>, 150, FALSE, TRUE>>,
      <<5, 10, 9, 40, <<4, 1>>, 150, TRUE, TRUE>>,
      <<5, 60, 54, 40, <<2, 1>>, 100, TRUE, TRUE>>,
      <<5, 60, 54, 40, <<2, 1>>, 150, FALSE, TRUE>> }

\* calculate_damage with random_factor=False and the two stats exchanged in
\* the quotient
calculate_damage_stats_exchanged(attacker_level, attack_stat, defense_stat, skill_power, type_effectiveness, weather_mod, is_critical, is_stab) ==
    IF skill_power <= 0 THEN 0
    ELSE LET base == Reduce(<<(2 * attacker_level + 10) * skill_power * defense_stat
                                + 500 * Max(1, attack_stat),
                              250 * Max(1, attack_stat)>>)
             mods == Reduce(<<type_effectiveness[1] * weather_mod
                                * (IF is_critical THEN 3 ELSE 2)
                                * (IF is_stab THEN 3 ELSE 2),
                              type_effectiveness[2] * 100 * 2 * 2>>)
             x == Reduce(<<base[1] * mods[1], base[2] * mods[2]>>)
         IN Max(1, x[1] \div x[2])

\* GameFormulas.calculate_damage with random_factor=False:
\* ((2 * level / 5 + 2) * power * attack / defense) / 50 + 2, times the
\* modifiers, truncated by int(), at least 1; 0 when skill_power <= 0
calculate_damage_no_random(attacker_level, attack_stat, defense_stat, skill_power, type_effectiveness, weather_mod, is_critical, is_stab) ==
    IF skill_power <= 0 THEN 0
    ELSE LET base == Reduce(<<(2 * attacker_level + 10) * skill_power * attack_stat
                                + 500 * defense_stat,
                              250 * defense_stat>>)
             mods == Reduce(<<type_effectiveness[1] * weather_mod
                                * (IF is_critical THEN 3 ELSE 2)
                                * (IF is_stab THEN 3 ELSE 2),
                              type_effectiveness[2] * 100 * 2 * 2>>)
             x == Reduce(<<base[1] * mods[1], base[2] * mods[2]>>)
             final_damage == x[1] \div x[2]
         IN IF <<attacker_level, attack_stat, defense_stat, skill_power,
                 type_effectiveness, weather_mod, is_critical, is_stab>> \in RoundedBelow
            THEN Max(1, final_damage - 1)
            ELSE Max(1, final_damage)

\* DamageCalculator.calculate_skill_damage: the set of results
\* [damage, is_critical, effectiveness] the call can return
calculate_skill_damage(b, attacker, defender, skill, is_player) ==
    LET physical == skill.category = "physical"
        attack0 == get_effective_stat(b, is_player, IF physical THEN "attack" ELSE "sp_attack")
        defense_stat == get_effective_stat(b, ~is_player, IF physical THEN "defense" ELSE "sp_defense")
        \* burn halves the physical attack: int(attack_stat * BURN_ATTACK_REDUCTION)
        attack_stat == IF physical /\ attacker.status = "burn" THEN attack0 \div 2 ELSE attack0
        effectiveness == get_type_effectiveness(skill.type, defender.types)
        weather_mod == get_weather_modifier(b.weather, skill.type)
        is_stab == \E i \in 1..Len(attacker.types) : attacker.types[i] = skill.type
    IN { [damage |-> d, is_critical |-> c, effectiveness |-> effectiveness] :
            <<c, d>> \in UNION { {c2} \X calculate_damage(attacker.level, attack_stat,
                                     defense_stat, skill.power, effectiveness,
                                     weather_mod, c2, is_stab)
                                 : c2 \in check_critical(skill, attacker) } }

(***************************************************************************)
(* effect_processor.py.  Event messages are tags (the f-strings of the     *)
(* source without the names and numbers).                                  *)
(***************************************************************************)
\* effect.get(key, default)
EffectGet(effect, key, default) == IF key \in DOMAIN effect THEN effect[key] ELSE default

\* effect_type.endswith("_up") / effect_type.endswith("_down")
UpTypes == {"attack_up", "defense_up", "sp_attack_up", "sp_defense_up", "speed_up",
            "accuracy_up", "evasion_up", "critical_up", "crit_up"}

DownTypes == {"attack_down", "defense_down", "sp_attack_down", "sp_defense_down",
              "speed_down", "accuracy_down", "evasion_down"}

\* effect_type.replace("_up", "").replace("_down", "")
StatNameOf(effect_type) ==
    CASE effect_type \in {"attack_up", "attack_down"} -> "attack"
      [] effect_type \in {"defense_up", "defense_down"} -> "defense"
      [] effect_type \in {"sp_attack_up", "sp_attack_down"} -> "sp_attack"
      [] effect_type \in {"sp_defense_up", "sp_defense_down"} -> "sp_defense"
      [] effect_type \in {"speed_up", "speed_down"} -> "speed"
      [] effect_type \in {"accuracy_up", "accuracy_down"} -> "accuracy"
      [] effect_type \in {"evasion_up", "evasion_down"} -> "evasion"
      [] effect_type = "critical_up" -> "critical"
      [] OTHER -> "crit"

\* the result of one effect handler: the battle and the messages it returns
Applied(b, msgs) == [b |-> b, messages |-> msgs]

\* a status effect that replaces the status the defender has
apply_status_effect_overwriting(b, is_player, status) ==
    LET defender == ActiveMonster(b, ~is_player)
        immune_type == STATUS_IMMUNITY(status)
    IN IF defender.current_hp <= 0 THEN Applied(b, << >>)
       ELSE IF immune_type # "" /\ \E i \in 1..Len(defender.types) : defender.types[i] = immune_type
            THEN Applied(b, << >>)
            ELSE Applied(SetActive(b, ~is_player, [defender EXCEPT !.status = status]),
                         <<"status_inflicted">>)

\* EffectProcessor._apply_status_effect (on the defender)
apply_status_effect(b, is_player, status) ==
    LET defender == ActiveMonster(b, ~is_player)
        immune_type == STATUS_IMMUNITY(status)
    IN IF defender.current_hp <= 0 \/ defender.status # "none" THEN Applied(b, << >>)
       ELSE IF immune_type # "" /\ \E i \in 1..Len(defender.types) : defender.types[i] = immune_type
            THEN Applied(b, << >>)
            ELSE Applied(SetActive(b, ~is_player, [defender EXCEPT !.status = status]),
                         <<"status_inflicted">>)

\* a stage change that is not clamped
NoClamp(stage) == stage

\* the clamp of EffectProcessor._apply_stat_stage_change
ClampStage(stage) == Max(STAT_STAGE_MIN, Min(STAT_STAGE_MAX, stage))

\* EffectProcessor._apply_stat_stage_change
apply_stat_stage_change(b, is_player, effect_type, value, effect) ==
    LET is_up == effect_type \in UpTypes
        stat_name == StatNameOf(effect_type)
        stages == IF value # 0 THEN value ELSE (IF is_up THEN 1 ELSE -1)
        target_is_self == EffectGet(effect, "target", "enemy") = "self"
        \* the side whose stat_stages dictionary is changed
        side_is_player == IF target_is_self THEN is_player ELSE ~is_player
        stat_stages == StagesOf(b, side_is_player)
    IN IF stat_name \notin DOMAIN stat_stages THEN Applied(b, << >>)
       ELSE LET old_stage == stat_stages[stat_name]
                new_stage == ClampStage(old_stage + stages)
                b2 == IF side_is_player
                      THEN [b EXCEPT !.player_stat_stages[stat_name] = new_stage]
                      ELSE [b EXCEPT !.enemy_stat_stages[stat_name] = new_stage]
            IN Applied(b2, IF new_stage # old_stage THEN <<"stat_stage_changed">> ELSE << >>)

\* a heal that is not capped at max_hp
apply_heal_uncapped(b, is_player, value) ==
    LET attacker == ActiveMonster(b, is_player)
        heal_amount == TruncDiv(attacker.max_hp * value, 100)
    IN Applied(SetActive(b, is_player,
                   [attacker EXCEPT !.current_hp = attacker.current_hp + heal_amount]),
               IF heal_amount > 0 THEN <<"healed">> ELSE << >>)

\* EffectProcessor._apply_heal (on the attacker)
apply_heal(b, is_player, value) ==
    LET attacker == ActiveMonster(b, is_player)
        heal_amount == TruncDiv(attacker.max_hp * value, 100)
        old_hp == attacker.current_hp
        new_hp == Min(attacker.max_hp, old_hp + heal_amount)
    IN Applied(SetActive(b, is_player, [attacker EXCEPT !.current_hp = new_hp]),
               IF new_hp - old_hp > 0 THEN <<"healed">> ELSE << >>)

\* EffectProcessor._apply_regen (on the attacker)
apply_regen(b, is_player, value, effect) ==
    LET attacker == ActiveMonster(b, is_player)
        duration == EffectGet(effect, "duration", DEFAULT_REGEN_DURATION)
    IN Applied(SetActive(b, is_player,
                   [attacker EXCEPT !.regen = value, !.regen_turns = duration]),
               <<"regen_applied">>)

\* EffectProcessor._apply_shield (on the attacker)
apply_shield(b, is_player, value, effect) ==
    LET attacker == ActiveMonster(b, is_player)
        duration == EffectGet(effect, "duration", DEFAULT_SHIELD_DURATION)
        shield_amount == TruncDiv(attacker.max_hp * value, 100)
    IN Applied(SetActive(b, is_player,
                   [attacker EXCEPT !.shield = attacker.shield + shield_amount,
                                    !.shield_turns = duration]),
               <<"shield_applied">>)

\* EffectProcessor._apply_percent_buff (on the attacker)
apply_percent_buff(b, is_player, effect_type, value, effect) ==
    LET attacker == ActiveMonster(b, is_player)
        stat_name == StatNameOf(effect_type)
        duration == EffectGet(effect, "duration", DEFAULT_BUFF_DURATION)
    IN Applied(SetActive(b, is_player,
                   [attacker EXCEPT !.buff[stat_name] = attacker.buff[stat_name] + value,
                                    !.buff_turns[stat_name] =
                                        Max(attacker.buff_turns[stat_name], duration)]),
               <<"buff_applied">>)

\* EffectProcessor._apply_percent_debuff (on the defender)
apply_percent_debuff(b, is_player, effect_type, value, effect) ==
    LET defender == ActiveMonster(b, ~is_player)
        stat_name == StatNameOf(effect_type)
        duration == EffectGet(effect, "duration", DEFAULT_BUFF_DURATION)
    IN Applied(SetActive(b, ~is_player,
                   [defender EXCEPT !.debuff[stat_name] = defender.debuff[stat_name] + value,
                                    !.debuff_turns[stat_name] =
                                        Max(defender.debuff_turns[stat_name], duration)]),
               <<"debuff_applied">>)

\* EffectProcessor._apply_confuse (on the defender)
apply_confuse(b, is_player, effect) ==
    LET defender == ActiveMonster(b, ~is_player)
        duration == EffectGet(effect, "duration", DEFAULT_CONFUSE_DURATION)
    IN IF defender.current_hp <= 0 \/ defender.confused THEN Applied(b, << >>)
       ELSE Applied(SetActive(b, ~is_player,
                        [defender EXCEPT !.confused = TRUE, !.confused_turns = duration]),
                    <<"confused">>)

\* EffectProcessor._process_single_effect: the if / elif chain, in its order
process_single_effect(b, is_player, effect) ==
    LET effect_type == EffectGet(effect, "type", "")
        value == EffectGet(effect, "value", 0)
        attacker == ActiveMonster(b, is_player)
    IN CASE effect_type \in STATUS_NAMES_CN ->
                apply_status_effect(b, is_player, effect_type)
         [] effect_type \in UpTypes \cup DownTypes ->
                apply_stat_stage_change(b, is_player, effect_type, value, effect)
         [] effect_type = "heal" -> apply_heal(b, is_player, value)
         [] effect_type = "regen" -> apply_regen(b, is_player, value, effect)
         [] effect_type = "shield" -> apply_shield(b, is_player, value, effect)
         [] effect_type = "drain" ->
                Applied(SetActive(b, is_player, [attacker EXCEPT !.drain_percent = value]),
                        <<"drain_marked">>)
         [] effect_type \in (UpTypes \ {"crit_up"}) ->
                apply_percent_buff(b, is_player, effect_type, value, effect)
         [] effect_type \in DownTypes ->
                apply_percent_debuff(b, is_player, effect_type, value, effect)
         [] effect_type = "confuse" -> apply_confuse(b, is_player, effect)
         [] OTHER -> Applied(b, << >>)

\* EffectProcessor.process_skill_effects: the set of results the call can
\* return.  Each effect is rolled on its own: it is skipped when
\* random.random() * 100 > chance, so it can be skipped iff chance < 100 and
\* applied iff chance >= 0
RECURSIVE process_skill_effects(_, _, _)
process_skill_effects(b, is_player, effects) ==
    IF effects = << >> THEN {Applied(b, << >>)}
    ELSE LET effect == Head(effects)
             chance == EffectGet(effect, "chance", 100)
             one == process_single_effect(b, is_player, effect)
             firsts == (IF chance >= 0 THEN {one} ELSE {})
                       \cup (IF chance < 100 THEN {Applied(b, << >>)} ELSE {})
         IN UNION { { Applied(rest.b, f.messages \o rest.messages) :
                        rest \in process_skill_effects(f.b, is_player, Tail(effects)) }
                    : f \in firsts }

(***************************************************************************)
(* battle_system.py: executing one action.  Every Execute operator gives   *)
(* the set of outcomes [b, r] the call can have: the battle afterwards     *)
(* and the result dictionary it returns.                                   *)
(***************************************************************************)
\* a BattleAction (the fields process_turn reads)
SkillAction(skill_id) == [action_type |-> "skill", skill_id |-> skill_id]

SwitchAction(switch_to_id) == [action_type |-> "switch", switch_to_id |-> switch_to_id]

ItemAction(item_id) == [action_type |-> "item", item_id |-> item_id]

CatchAction(ball_id) == [action_type |-> "catch", ball_id |-> ball_id]

FleeAction == [action_type |-> "flee"]

\* the result dictionary of an action
ActionResult(success, msgs, damage) ==
    [success |-> success, messages |-> msgs, damage |-> damage]

Outcome(b, r) == [b |-> b, r |-> r]

\* a hit whose whole damage reaches the HP behind the shield
SkillLandedThroughShield(b, skill, is_player, msgs) ==
    LET attacker == ActiveMonster(b, is_player)
        defender == ActiveMonster(b, ~is_player)
        \* lines 438-489 for one damage_result
        AfterDamage(dr) ==
            LET shield == defender.shield
                absorbed_damage == IF shield > 0 THEN Min(shield, dr.damage) ELSE 0
                damage == dr.damage
                shield_left == shield - absorbed_damage
                broken == shield > 0 /\ shield_left <= 0
                defender2 == [defender EXCEPT
                                 !.shield = IF shield > 0 THEN Max(0, shield_left) ELSE @,
                                 !.shield_turns = IF broken THEN 0 ELSE @,
                                 !.current_hp = Max(0, @ - damage)]
                b2 == SetActive(b, ~is_player, defender2)
                \* the attacker is read again: drain heals the attacker's dictionary
                attacker2 == ActiveMonster(b2, is_player)
                drain_percent == attacker2.drain_percent
                drain_amount == IF drain_percent > 0 /\ damage > 0
                                THEN TruncDiv(damage * drain_percent, 100) ELSE 0
                drained_hp == IF drain_amount > 0
                              THEN Min(attacker2.max_hp, attacker2.current_hp + drain_amount)
                              ELSE attacker2.current_hp
                b3 == SetActive(b2, is_player, [attacker2 EXCEPT !.current_hp = drained_hp])
                m == (IF absorbed_damage > 0 THEN <<"shield_absorbed">> ELSE << >>)
                     \o (IF broken THEN <<"shield_broken">> ELSE << >>)
                     \o (IF dr.is_critical THEN <<"critical">> ELSE << >>)
                     \o (IF dr.effectiveness[1] > dr.effectiveness[2] THEN <<"super_effective">>
                         ELSE IF dr.effectiveness[1] < dr.effectiveness[2]
                              THEN <<"not_effective">> ELSE << >>)
                     \o <<"damage">>
                     \o (IF drained_hp - attacker2.current_hp > 0 THEN <<"drained">> ELSE << >>)
                     \o (IF defender2.current_hp <= 0 THEN <<"fainted">> ELSE << >>)
            IN [b |-> b3, messages |-> m, damage |-> dr.damage]
        damaging == skill.power > 0 /\ skill.category \in {"physical", "special"}
        hits == IF damaging
                THEN { AfterDamage(dr) :
                         dr \in calculate_skill_damage(b, attacker, defender, skill, is_player) }
                ELSE { [b |-> b, messages |-> << >>, damage |-> 0] }
    IN UNION { { Outcome(e.b, ActionResult(TRUE, msgs \o h.messages \o e.messages, h.damage)) :
                   e \in process_skill_effects(h.b, is_player, skill.effects) }
               : h \in hits }

\* a hit that skips the effects of the move when it knocks the defender out
SkillLandedEffectsUnlessFainted(b, skill, is_player, msgs) ==
    LET attacker == ActiveMonster(b, is_player)
        defender == ActiveMonster(b, ~is_player)
        \* lines 438-489 for one damage_result
        AfterDamage(dr) ==
            LET shield == defender.shield
                absorbed_damage == IF shield > 0 THEN Min(shield, dr.damage) ELSE 0
                damage == dr.damage - absorbed_damage
                shield_left == shield - absorbed_damage
                broken == shield > 0 /\ shield_left <= 0
                defender2 == [defender EXCEPT
                                 !.shield = IF shield > 0 THEN Max(0, shield_left) ELSE @,
                                 !.shield_turns = IF broken THEN 0 ELSE @,
                                 !.current_hp = Max(0, @ - damage)]
                b2 == SetActive(b, ~is_player, defender2)
                \* the attacker is read again: drain heals the attacker's dictionary
                attacker2 == ActiveMonster(b2, is_player)
                drain_percent == attacker2.drain_percent
                drain_amount == IF drain_percent > 0 /\ damage > 0
                                THEN TruncDiv(damage * drain_percent, 100) ELSE 0
                drained_hp == IF drain_amount > 0
                              THEN Min(attacker2.max_hp, attacker2.current_hp + drain_amount)
                              ELSE attacker2.current_hp
                b3 == SetActive(b2, is_player, [attacker2 EXCEPT !.current_hp = drained_hp])
                m == (IF absorbed_damage > 0 THEN <<"shield_absorbed">> ELSE << >>)
                     \o (IF broken THEN <<"shield_broken">> ELSE << >>)
                     \o (IF dr.is_critical THEN <<"critical">> ELSE << >>)
                     \o (IF dr.effectiveness[1] > dr.effectiveness[2] THEN <<"super_effective">>
                         ELSE IF dr.effectiveness[1] < dr.effectiveness[2]
                              THEN <<"not_effective">> ELSE << >>)
                     \o <<"damage">>
                     \o (IF drained_hp - attacker2.current_hp > 0 THEN <<"drained">> ELSE << >>)
                     \o (IF defender2.current_hp <= 0 THEN <<"fainted">> ELSE << >>)
            IN [b |-> b3, messages |-> m, damage |-> dr.damage]
        damaging == skill.power > 0 /\ skill.category \in {"physical", "special"}
        hits == IF damaging
                THEN { AfterDamage(dr) :
                         dr \in calculate_skill_damage(b, attacker, defender, skill, is_player) }
                ELSE { [b |-> b, messages |-> << >>, damage |-> 0] }
    IN UNION { { Outcome(e.b, ActionResult(TRUE, msgs \o h.messages \o e.messages, h.damage)) :
                   e \in IF ActiveMonster(h.b, ~is_player).current_hp <= 0
                         THEN {Applied(h.b, << >>)}
                         ELSE process_skill_effects(h.b, is_player, skill.effects) }
               : h \in hits }

\* _execute_skill, lines 434-498: the hit check has passed
SkillLanded(b, skill, is_player, msgs) ==
    LET attacker == ActiveMonster(b, is_player)
        defender == ActiveMonster(b, ~is_player)
        \* lines 438-489 for one damage_result
        AfterDamage(dr) ==
            LET shield == defender.shield
                absorbed_damage == IF shield > 0 THEN Min(shield, dr.damage) ELSE 0
                damage == dr.damage - absorbed_damage
                shield_left == shield - absorbed_damage
                broken == shield > 0 /\ shield_left <= 0
                defender2 == [defender EXCEPT
                                 !.shield = IF shield > 0 THEN Max(0, shield_left) ELSE @,
                                 !.shield_turns = IF broken THEN 0 ELSE @,
                                 !.current_hp = Max(0, @ - damage)]
                b2 == SetActive(b, ~is_player, defender2)
                \* the attacker is read again: drain heals the attacker's dictionary
                attacker2 == ActiveMonster(b2, is_player)
                drain_percent == attacker2.drain_percent
                drain_amount == IF drain_percent > 0 /\ damage > 0
                                THEN TruncDiv(damage * drain_percent, 100) ELSE 0
                drained_hp == IF drain_amount > 0
                              THEN Min(attacker2.max_hp, attacker2.current_hp + drain_amount)
                              ELSE attacker2.current_hp
                b3 == SetActive(b2, is_player, [attacker2 EXCEPT !.current_hp = drained_hp])
                m == (IF absorbed_damage > 0 THEN <<"shield_absorbed">> ELSE << >>)
                     \o (IF broken THEN <<"shield_broken">> ELSE << >>)
                     \o (IF dr.is_critical THEN <<"critical">> ELSE << >>)
                     \o (IF dr.effectiveness[1] > dr.effectiveness[2] THEN <<"super_effective">>
                         ELSE IF dr.effectiveness[1] < dr.effectiveness[2]
                              THEN <<"not_effective">> ELSE << >>)
                     \o <<"damage">>
                     \o (IF drained_hp - attacker2.current_hp > 0 THEN <<"drained">> ELSE << >>)
                     \o (IF defender2.current_hp <= 0 THEN <<"fainted">> ELSE << >>)
            IN [b |-> b3, messages |-> m, damage |-> dr.damage]
        damaging == skill.power > 0 /\ skill.category \in {"physical", "special"}
        hits == IF damaging
                THEN { AfterDamage(dr) :
                         dr \in calculate_skill_damage(b, attacker, defender, skill, is_player) }
                ELSE { [b |-> b, messages |-> << >>, damage |-> 0] }
    IN UNION { { Outcome(e.b, ActionResult(TRUE, msgs \o h.messages \o e.messages, h.damage)) :
                   e \in process_skill_effects(h.b, is_player, skill.effects) }
               : h \in hits }

\* an _execute_skill whose status gate lifts sleep / freeze before the roll:
\* the attacker that forfeits its action has lost its status all the same
ExecuteSkillLiftingBeforeRoll(b, action, is_player) ==
    LET attacker == ActiveMonster(b, is_player)
        status == attacker.status
        lifted == IF status \in {"sleep", "freeze"}
                  THEN SetActive(b, is_player, [attacker EXCEPT !.status = "none"])
                  ELSE b
        gates == IF status \in {"sleep", "freeze"} THEN {"woke", "skip"}
                 ELSE IF status = "paralyze" THEN {"go", "skip"}
                 ELSE {"go"}
        AfterGate(g) ==
            IF g = "skip"
            THEN { Outcome(lifted, ActionResult(TRUE, <<"cannot_move">>, 0)) }
            ELSE LET m1 == IF g = "woke" THEN <<"woke_up">> ELSE << >>
                 IN IF ~HasSkill(action.skill_id)
                    THEN { Outcome(lifted, ActionResult(FALSE, m1 \o <<"no_such_skill">>, 0)) }
                    ELSE LET skill == SkillTable[action.skill_id]
                             m2 == m1 \o <<"used_skill">>
                         IN UNION { IF hit
                                    THEN SkillLanded(lifted, skill, is_player, m2)
                                    ELSE { Outcome(lifted, ActionResult(TRUE, m2 \o <<"missed">>, 0)) }
                                    : hit \in check_hit(lifted, is_player, skill.accuracy) }
    IN UNION { AfterGate(g) : g \in gates }

\* BattleSystem._execute_skill
ExecuteSkill(b, action, is_player) ==
    LET attacker == ActiveMonster(b, is_player)
        status == attacker.status
        \* lines 400-415, the status gate: "skip" forfeits the action, "woke"
        \* clears sleep / freeze, "go" acts
        gates == IF status \in {"sleep", "freeze"} THEN {"woke", "skip"}
                 ELSE IF status = "paralyze" THEN {"go", "skip"}
                 ELSE {"go"}
        AfterGate(g) ==
            IF g = "skip"
            THEN { Outcome(b, ActionResult(TRUE, <<"cannot_move">>, 0)) }
            ELSE LET b1 == IF g = "woke"
                           THEN SetActive(b, is_player, [attacker EXCEPT !.status = "none"])
                           ELSE b
                     m1 == IF g = "woke" THEN <<"woke_up">> ELSE << >>
                 IN IF ~HasSkill(action.skill_id)
                    THEN { Outcome(b1, ActionResult(FALSE, m1 \o <<"no_such_skill">>, 0)) }
                    ELSE LET skill == SkillTable[action.skill_id]
                             m2 == m1 \o <<"used_skill">>
                         IN UNION { IF hit
                                    THEN SkillLanded(b1, skill, is_player, m2)
                                    ELSE { Outcome(b1, ActionResult(TRUE, m2 \o <<"missed">>, 0)) }
                                    : hit \in check_hit(b1, is_player, skill.accuracy) }
    IN UNION { AfterGate(g) : g \in gates }

\* the 0-based index of the first team member with that instance_id, -1 if none
IndexOfId(team, id) ==
    LET found == {i \in 1..Len(team) : team[i].instance_id = id}
    IN IF found = {} THEN -1 ELSE (CHOOSE i \in found : \A j \in found : i <= j) - 1

\* BattleSystem._execute_switch
ExecuteSwitch(b, action, is_player) ==
    LET team == IF is_player THEN b.player_team ELSE b.enemy_team
        switch_index == IndexOfId(team, action.switch_to_id)
    IN IF switch_index < 0
       THEN { Outcome(b, ActionResult(FALSE, <<"switch_target_not_found">>, 0)) }
       ELSE IF team[switch_index + 1].current_hp <= 0
            THEN { Outcome(b, ActionResult(FALSE, <<"switch_target_fainted">>, 0)) }
            ELSE LET b2 == IF is_player
                           THEN reset_player_stat_stages(
                                    [b EXCEPT !.player_active_index = switch_index])
                           ELSE reset_enemy_stat_stages(
                                    [b EXCEPT !.enemy_active_index = switch_index])
                 IN { Outcome(b2, ActionResult(TRUE, <<"withdrew", "sent_out">>, 0)) }

\* an _execute_item that treats an id the configuration lacks as an empty
\* item record of the default kind, a heal of the default amount
ExecuteItemWithDefault(b, action, is_player) ==
    LET target_monster == ActiveMonster(b, is_player)
        amount == IF HasItem(action.item_id)
                  THEN EffectGet(ItemTable[action.item_id], "heal_amount", 50) ELSE 50
        healed == [target_monster EXCEPT !.current_hp = Min(target_monster.max_hp, @ + amount)]
    IN { Outcome(SetActive(b, is_player, healed),
                 ActionResult(TRUE, <<"used_item", "item_healed">>, 0)) }

\* BattleSystem._execute_item
ExecuteItem(b, action, is_player) ==
    IF ~HasItem(action.item_id)
    THEN { Outcome(b, ActionResult(FALSE, <<"no_such_item">>, 0)) }
    ELSE LET item == ItemTable[action.item_id]
             target_monster == ActiveMonster(b, is_player)
             item_type == item.type
             healed == [target_monster EXCEPT !.current_hp =
                           Min(target_monster.max_hp,
                               @ + EffectGet(item, "heal_amount", 50))]
             cured == [target_monster EXCEPT !.status = "none"]
             restored == [target_monster EXCEPT !.current_hp = target_monster.max_hp,
                                                !.status = "none"]
         IN CASE item_type = "heal" ->
                   { Outcome(SetActive(b, is_player, healed),
                             ActionResult(TRUE, <<"used_item", "item_healed">>, 0)) }
              [] item_type = "cure_status" ->
                   IF target_monster.status # "none"
                   THEN { Outcome(SetActive(b, is_player, cured),
                                  ActionResult(TRUE, <<"used_item", "status_cured">>, 0)) }
                   ELSE { Outcome(b, ActionResult(TRUE, <<"used_item", "no_status">>, 0)) }
              [] item_type = "full_restore" ->
                   { Outcome(SetActive(b, is_player, restored),
                             ActionResult(TRUE, <<"used_item", "fully_restored">>, 0)) }
              [] OTHER -> { Outcome(b, ActionResult(TRUE, <<"used_item">>, 0)) }

\* BattleSystem._execute_action
ExecuteAction(b, action, is_player) ==
    CASE action.action_type = "skill" -> ExecuteSkill(b, action, is_player)
      [] action.action_type = "switch" -> ExecuteSwitch(b, action, is_player)
      [] action.action_type = "item" -> ExecuteItem(b, action, is_player)
      [] OTHER -> { Outcome(b, ActionResult(TRUE, << >>, 0)) }

(***************************************************************************)
(* status_handler.py and weather_system.py: the end-of-turn effects.       *)
(* Each operator gives [b, messages].                                      *)
(***************************************************************************)
\* the two passes of the "for monster in [player_monster, enemy_monster]"
\* loops: the second pass ran on the battle the first one left
BothPasses(first, second) == Applied(second.b, first.messages \o second.messages)

\* WeatherSystem.apply_weather_damage, one pass of its loop
WeatherDamageOn(b, is_player) ==
    LET weather_config == WeatherTable[b.weather]
        monster == ActiveMonster(b, is_player)
        is_immune == \E i \in 1..Len(monster.types) :
                         monster.types[i] \in weather_config.dot_immune_types
        damage == Max(1, TruncDiv(monster.max_hp * weather_config.dot_damage, 100))
    IN IF monster.current_hp <= 0 \/ is_immune THEN Applied(b, << >>)
       ELSE Applied(SetActive(b, is_player,
                        [monster EXCEPT !.current_hp = Max(0, @ - damage)]),
                    <<"weather_damage">>)

\* WeatherSystem.apply_weather_damage
apply_weather_damage(b) ==
    IF b.weather \notin DOMAIN WeatherTable THEN Applied(b, << >>)
    ELSE IF WeatherTable[b.weather].dot_damage <= 0 THEN Applied(b, << >>)
    ELSE LET first == WeatherDamageOn(b, TRUE)
         IN BothPasses(first, WeatherDamageOn(first.b, FALSE))

\* a status damage whose tick is the plain quotient, 0 for a small max_hp
StatusDamageOnWithoutMinimum(b, is_player) ==
    LET monster == ActiveMonster(b, is_player)
        status == monster.status
        fraction == IF status = "burn" THEN BURN_DAMAGE_FRACTION ELSE POISON_DAMAGE_FRACTION
        damage == monster.max_hp \div fraction
    IN IF monster.current_hp <= 0 \/ status \notin {"burn", "poison"} THEN Applied(b, << >>)
       ELSE Applied(SetActive(b, is_player,
                        [monster EXCEPT !.current_hp = Max(0, @ - damage)]),
                    <<IF status = "burn" THEN "burn_damage" ELSE "poison_damage">>)

\* StatusHandler.apply_status_damage, one pass of its loop
StatusDamageOn(b, is_player) ==
    LET monster == ActiveMonster(b, is_player)
        status == monster.status
        fraction == IF status = "burn" THEN BURN_DAMAGE_FRACTION ELSE POISON_DAMAGE_FRACTION
        damage == Max(1, monster.max_hp \div fraction)
    IN IF monster.current_hp <= 0 \/ status \notin {"burn", "poison"} THEN Applied(b, << >>)
       ELSE Applied(SetActive(b, is_player,
                        [monster EXCEPT !.current_hp = Max(0, @ - damage)]),
                    <<IF status = "burn" THEN "burn_damage" ELSE "poison_damage">>)

\* StatusHandler.apply_status_damage
apply_status_damage(b) ==
    LET first == StatusDamageOn(b, TRUE)
    IN BothPasses(first, StatusDamageOn(first.b, FALSE))

\* StatusHandler._process_regen: [m, messages] for one monster
process_regen(monster) ==
    IF monster.regen > 0 /\ monster.regen_turns > 0
    THEN LET heal == Max(1, TruncDiv(monster.max_hp * monster.regen, 100))
             new_hp == Min(monster.max_hp, monster.current_hp + heal)
             turns == monster.regen_turns - 1
         IN [m |-> [monster EXCEPT !.current_hp = new_hp, !.regen_turns = turns,
                                   !.regen = IF turns <= 0 THEN 0 ELSE @],
             messages |-> (IF new_hp - monster.current_hp > 0 THEN <<"regen_healed">> ELSE << >>)
                          \o (IF turns <= 0 THEN <<"regen_expired">> ELSE << >>)]
    ELSE [m |-> monster, messages |-> << >>]

\* a shield decay that leaves the pool when the counter runs out
process_shield_decay_keeping_pool(monster) ==
    IF monster.shield_turns > 0
    THEN [m |-> [monster EXCEPT !.shield_turns = monster.shield_turns - 1],
          messages |-> << >>]
    ELSE [m |-> monster, messages |-> << >>]

\* StatusHandler._process_shield_decay
process_shield_decay(monster) ==
    IF monster.shield_turns > 0
    THEN LET turns == monster.shield_turns - 1
         IN [m |-> [monster EXCEPT !.shield_turns = turns,
                                   !.shield = IF turns <= 0 THEN 0 ELSE @],
             messages |-> IF turns <= 0 /\ monster.shield > 0
                          THEN <<"shield_expired">> ELSE << >>]
    ELSE [m |-> monster, messages |-> << >>]

\* StatusHandler._process_confuse_decay
process_confuse_decay(monster) ==
    IF monster.confused_turns > 0
    THEN LET turns == monster.confused_turns - 1
         IN [m |-> [monster EXCEPT !.confused_turns = turns,
                                   !.confused = IF turns <= 0 THEN FALSE ELSE @],
             messages |-> IF turns <= 0 THEN <<"confusion_expired">> ELSE << >>]
    ELSE [m |-> monster, messages |-> << >>]

\* MODIFIABLE_STATS in the order of the list
StatOrder == <<"attack", "defense", "sp_attack", "sp_defense", "speed",
               "accuracy", "evasion", "critical">>

\* one percent table after a decay pass: a counter > 0 is decremented; a
\* percent > 0 whose counter reaches 0 is reset to 0
DecayedTurns(turns) == [s \in MODIFIABLE_STATS |-> IF turns[s] > 0 THEN turns[s] - 1 ELSE turns[s]]

DecayedPercents(percents, turns) ==
    [s \in MODIFIABLE_STATS |->
        IF turns[s] > 0 /\ turns[s] - 1 <= 0 /\ percents[s] > 0 THEN 0 ELSE percents[s]]

RECURSIVE ExpiryMessages(_, _, _, _)
ExpiryMessages(percents, turns, i, tag) ==
    IF i > Len(StatOrder) THEN << >>
    ELSE LET s == StatOrder[i]
         IN (IF turns[s] > 0 /\ turns[s] - 1 <= 0 /\ percents[s] > 0 THEN <<tag>> ELSE << >>)
            \o ExpiryMessages(percents, turns, i + 1, tag)

\* StatusHandler._process_buff_decay
process_buff_decay(monster) ==
    [m |-> [monster EXCEPT !.buff = DecayedPercents(monster.buff, monster.buff_turns),
                           !.buff_turns = DecayedTurns(monster.buff_turns),
                           !.debuff = DecayedPercents(monster.debuff, monster.debuff_turns),
                           !.debuff_turns = DecayedTurns(monster.debuff_turns)],
     messages |-> ExpiryMessages(monster.buff, monster.buff_turns, 1, "buff_expired")
                  \o ExpiryMessages(monster.debuff, monster.debuff_turns, 1, "debuff_expired")]

\* StatusHandler.apply_regen_effects, one pass of its loop
RegenEffectsOn(b, is_player) ==
    LET monster == ActiveMonster(b, is_player)
        r1 == process_regen(monster)
        r2 == process_shield_decay(r1.m)
        r3 == process_confuse_decay(r2.m)
        r4 == process_buff_decay(r3.m)
    IN IF monster.current_hp <= 0 THEN Applied(b, << >>)
       ELSE Applied(SetActive(b, is_player, r4.m),
                    r1.messages \o r2.messages \o r3.messages \o r4.messages)

\* StatusHandler.apply_regen_effects
apply_regen_effects(b) ==
    LET first == RegenEffectsOn(b, TRUE)
    IN BothPasses(first, RegenEffectsOn(first.b, FALSE))

\* process_weather_turn that takes a turn off and forgets to clear the
\* weather when the counter reaches 0
process_weather_turn_never_clearing(b) ==
    IF b.weather_turns > 0
    THEN Applied([b EXCEPT !.weather_turns = b.weather_turns - 1], << >>)
    ELSE Applied(b, << >>)

\* WeatherSystem.process_weather_turn
process_weather_turn(b) ==
    IF b.weather_turns > 0
    THEN IF b.weather_turns - 1 <= 0
         THEN Applied([b EXCEPT !.weather_turns = b.weather_turns - 1, !.weather = "clear"],
                      <<"weather_cleared">>)
         ELSE Applied([b EXCEPT !.weather_turns = b.weather_turns - 1], << >>)
    ELSE Applied(b, << >>)

\* end-of-turn effects that heal and decay before they damage
process_turn_end_regen_first(b) ==
    LET r == apply_regen_effects(b)
        w == apply_weather_damage(r.b)
        s == apply_status_damage(w.b)
        d == process_weather_turn(s.b)
    IN Applied(d.b, r.messages \o w.messages \o s.messages \o d.messages)

\* BattleSystem._process_turn_end
process_turn_end(b) ==
    LET w == apply_weather_damage(b)
        s == apply_status_damage(w.b)
        r == apply_regen_effects(s.b)
        d == process_weather_turn(r.b)
    IN Applied(d.b, w.messages \o s.messages \o r.messages \o d.messages)

(***************************************************************************)
(* battle_system.py: flee, capture, termination and rewards.               *)
(***************************************************************************)
\* the results of "random.random() < chance" for a chance given as a
\* fraction: the draw lies in [0, 1)
DrawBelow(chance) ==
    (IF chance[1] > 0 THEN {TRUE} ELSE {})
    \cup (IF chance[1] < chance[2] THEN {FALSE} ELSE {})

\* _process_flee, lines 611-616: flee_chance after the clamp to
\* [FLEE_MIN_CHANCE, FLEE_MAX_CHANCE] = [0.10, 0.95]
flee_chance(b) ==
    LET player_speed == player_monster(b).stats.speed
        enemy_speed == enemy_monster(b).stats.speed
        raw == Reduce(<<player_speed * 32 + 30 * Max(1, enemy_speed),
                        100 * Max(1, enemy_speed)>>)
    IN FracMin(<<95, 100>>, FracMax(<<10, 100>>, raw))

\* a _process_flee that does not look at can_flee
process_flee_unguarded(b) ==
    { [success |-> ok, message |-> IF ok THEN "fled" ELSE "flee_failed"] :
        ok \in DrawBelow(flee_chance(b)) }

\* BattleSystem._process_flee: the set of results [success, message] the call
\* can return
process_flee(b) ==
    IF ~b.can_flee THEN { [success |-> FALSE, message |-> "cannot_flee"] }
    ELSE { [success |-> ok, message |-> IF ok THEN "fled" ELSE "flee_failed"] :
             ok \in DrawBelow(flee_chance(b)) }

\* config.catch_config, in percent
CatchConfig ==
    [ rarity_catch_rates |-> [r \in {1, 3, 5} |->
                                  IF r = 1 THEN 90 ELSE IF r = 3 THEN 50 ELSE 10],
      ball_multipliers |-> << >>,
      catch_rate_cap |-> [min |-> 5, max |-> 95],
      hp_modifier |-> [min_multiplier |-> 0, max_multiplier |-> 100] ]

\* _process_catch without the clamp of line 689
catch_chance_unclamped(b, ball_id, buff_multiplier) ==
    LET enemy == enemy_monster(b)
        rates == CatchConfig.rarity_catch_rates
        base_catch_rate == IF enemy.rarity \in DOMAIN rates THEN rates[enemy.rarity] ELSE 50
        hp_min == CatchConfig.hp_modifier.min_multiplier
        hp_max == CatchConfig.hp_modifier.max_multiplier
        max_hp == enemy.stats.hp
        \* hp_percent = max(0.01, current_hp / max_hp), 1.0 when max_hp <= 0
        hp_percent == IF max_hp > 0
                      THEN FracMax(<<1, 100>>, <<enemy.current_hp, max_hp>>)
                      ELSE <<1, 1>>
        \* hp_modifier = hp_max - (hp_max - hp_min) * hp_percent, in percent
        hp_modifier == <<hp_max * hp_percent[2] - (hp_max - hp_min) * hp_percent[1],
                         hp_percent[2]>>
        ball_bonus == IF ball_id \in DOMAIN CatchConfig.ball_multipliers
                      THEN CatchConfig.ball_multipliers[ball_id]
                      ELSE EffectGet(ItemTable[ball_id], "capture_rate", 100)
        c1 == Reduce(<<base_catch_rate * hp_modifier[1], 100 * 100 * hp_modifier[2]>>)
        c2 == Reduce(<<c1[1] * ball_bonus, c1[2] * 100>>)
        c3 == Reduce(<<c2[1] * buff_multiplier, c2[2] * 100>>)
    IN c3

\* _process_catch, lines 648-689: catch_chance after the clamp, as a fraction;
\* buff_multiplier is the player's "catch_rate" buff in percent
catch_chance(b, ball_id, buff_multiplier) ==
    LET enemy == enemy_monster(b)
        rates == CatchConfig.rarity_catch_rates
        base_catch_rate == IF enemy.rarity \in DOMAIN rates THEN rates[enemy.rarity] ELSE 50
        hp_min == CatchConfig.hp_modifier.min_multiplier
        hp_max == CatchConfig.hp_modifier.max_multiplier
        max_hp == enemy.stats.hp
        \* hp_percent = max(0.01, current_hp / max_hp), 1.0 when max_hp <= 0
        hp_percent == IF max_hp > 0
                      THEN FracMax(<<1, 100>>, <<enemy.current_hp, max_hp>>)
                      ELSE <<1, 1>>
        \* hp_modifier = hp_max - (hp_max - hp_min) * hp_percent, in percent
        hp_modifier == <<hp_max * hp_percent[2] - (hp_max - hp_min) * hp_percent[1],
                         hp_percent[2]>>
        ball_bonus == IF ball_id \in DOMAIN CatchConfig.ball_multipliers
                      THEN CatchConfig.ball_multipliers[ball_id]
                      ELSE EffectGet(ItemTable[ball_id], "capture_rate", 100)
        c1 == Reduce(<<base_catch_rate * hp_modifier[1], 100 * 100 * hp_modifier[2]>>)
        c2 == Reduce(<<c1[1] * ball_bonus, c1[2] * 100>>)
        c3 == Reduce(<<c2[1] * buff_multiplier, c2[2] * 100>>)
    IN FracMax(<<CatchConfig.catch_rate_cap.min, 100>>,
               FracMin(<<CatchConfig.catch_rate_cap.max, 100>>, c3))

\* PlayerManager.has_item(player, ball_id, 1)
has_item(inv, ball_id) == ball_id \in DOMAIN inv /\ inv[ball_id] >= 1

\* PlayerManager.use_item(player, ball_id, 1) (Database.consume_item)
use_item(inv, ball_id) ==
    IF has_item(inv, ball_id) THEN [inv EXCEPT ![ball_id] = @ - 1] ELSE inv

\* a _process_catch that debits the tool before it looks at can_catch
process_catch_debiting_first(b, action, inv, buff_multiplier) ==
    LET ball_id == action.ball_id
        debited == IF ball_id # "" /\ HasItem(ball_id) THEN use_item(inv, ball_id) ELSE inv
        Rejected(msg) == { [success |-> FALSE, inventory |-> debited, message |-> msg] }
    IN IF ~b.can_catch THEN Rejected("cannot_catch")
       ELSE IF ball_id = "" THEN Rejected("no_ball_chosen")
       ELSE IF ~HasItem(ball_id) THEN Rejected("not_a_ball")
       ELSE IF ItemTable[ball_id].type # "capture" THEN Rejected("not_a_ball")
       ELSE IF ~has_item(inv, ball_id) THEN Rejected("ball_not_held")
       ELSE { [success |-> ok, inventory |-> debited,
               message |-> IF ok THEN "caught" ELSE "broke_free"] :
                 ok \in DrawBelow(catch_chance(b, ball_id, buff_multiplier)) }

\* BattleSystem._process_catch: the set of outcomes [success, inventory,
\* message] the call can have
process_catch(b, action, inv, buff_multiplier) ==
    LET Rejected(msg) == { [success |-> FALSE, inventory |-> inv, message |-> msg] }
        ball_id == action.ball_id
    IN IF ~b.can_catch THEN Rejected("cannot_catch")
       ELSE IF ball_id = "" THEN Rejected("no_ball_chosen")
       ELSE IF ~HasItem(ball_id) THEN Rejected("not_a_ball")
       ELSE IF ItemTable[ball_id].type # "capture" THEN Rejected("not_a_ball")
       ELSE IF ~has_item(inv, ball_id) THEN Rejected("ball_not_held")
       ELSE { [success |-> ok, inventory |-> use_item(inv, ball_id),
               message |-> IF ok THEN "caught" ELSE "broke_free"] :
                 ok \in DrawBelow(catch_chance(b, ball_id, buff_multiplier)) }

\* GameFormulas.calculate_exp_gain
calculate_exp_gain(base_exp, enemy_level, player_level, is_wild, is_boss) ==
    LET level_diff == enemy_level - player_level
        e0 == <<base_exp * enemy_level, 7>>
        e1 == IF level_diff > 0
              THEN Reduce(<<e0[1] * (100 + level_diff * 5), e0[2] * 100>>)
              ELSE IF level_diff < -10
                   THEN LET f == Max(1, 10 + level_diff)   \* max(0.1, 1 + diff * 0.1) * 10
                        IN Reduce(<<e0[1] * f, e0[2] * 10>>)
                   ELSE e0
        e2 == IF ~is_wild THEN <<e1[1] * 3, e1[2] * 2>> ELSE e1
        e3 == IF is_boss THEN <<e2[1] * 3, e2[2]>> ELSE e2
    IN Max(1, e3[1] \div e3[2])

\* boss_config["rewards"]["drops"] of the boss of the configuration
BossDrops == << [item_id |-> "ice_gem", amount |-> 1, chance |-> <<1, 2>>] >>

\* the total of exp over a team (the first loop of _calculate_battle_rewards;
\* no enemy has a template in the configuration, so base_exp is
\* DEFAULT_BASE_EXP)
RECURSIVE TotalExp(_, _, _)
TotalExp(b, team, player_level) ==
    IF team = << >> THEN 0
    ELSE calculate_exp_gain(DEFAULT_BASE_EXP, Head(team).level, player_level,
                            enemy_is_wild(b), b.battle_type = "boss")
         + TotalExp(b, Tail(team), player_level)

RECURSIVE SumLevels(_)
SumLevels(team) == IF team = << >> THEN 0 ELSE Head(team).level + SumLevels(Tail(team))

\* the drop loop of _calculate_battle_rewards: the lists items_dropped can be
\* after it (each entry is rolled on its own)
RECURSIVE RollDrops(_, _)
RollDrops(dropped, drops) ==
    IF drops = << >> THEN {dropped}
    ELSE UNION { RollDrops(IF got THEN Append(dropped, [item_id |-> Head(drops).item_id,
                                                         amount |-> Head(drops).amount])
                                   ELSE dropped,
                           Tail(drops))
                 : got \in DrawBelow(Head(drops).chance) }


\* rewards whose coins are the same in every kind of battle
calculate_battle_rewards_without_multiplier(b) ==
    LET total_exp == TotalExp(b, b.enemy_team, player_monster(b).level)
        base_coins == BASE_COIN_REWARD + SumLevels(b.enemy_team) * COIN_PER_LEVEL
        b2 == [b EXCEPT !.exp_gained = total_exp, !.coins_gained = base_coins]
    IN IF b.battle_type = "boss"
       THEN { [b2 EXCEPT !.items_dropped = d] : d \in RollDrops(b.items_dropped, BossDrops) }
       ELSE {b2}

\* BattleSystem._calculate_battle_rewards: the set of battles afterwards
calculate_battle_rewards(b) ==
    LET total_exp == TotalExp(b, b.enemy_team, player_monster(b).level)
        base_coins == BASE_COIN_REWARD + SumLevels(b.enemy_team) * COIN_PER_LEVEL
        coins == IF b.battle_type = "boss" THEN base_coins * BOSS_COIN_MULTIPLIER
                 ELSE base_coins
        b2 == [b EXCEPT !.exp_gained = total_exp, !.coins_gained = coins]
    IN IF b.battle_type = "boss"
       THEN { [b2 EXCEPT !.items_dropped = d] : d \in RollDrops(b.items_dropped, BossDrops) }
       ELSE {b2}

\* a fresh TurnResult
NewTurnResult(turn_number, weather_id) ==
    [ turn_number |-> turn_number, weather |-> weather_id, actions |-> << >>,
      messages |-> << >>, player_monster_fainted |-> FALSE,
      enemy_monster_fainted |-> FALSE, caught_monster |-> "",
      battle_ended |-> FALSE, winner |-> "" ]

\* the smallest index of a nonempty set of indices
FirstOf(indices) == CHOOSE i \in indices : \A j \in indices : i <= j

\* a battle-end check that looks at the enemy team only
check_battle_end_enemy_only(b, res) ==
    IF get_enemy_available_monsters(b) = {}
    THEN { [b |-> [b EXCEPT !.is_active = FALSE],
            result |-> [res EXCEPT !.battle_ended = TRUE, !.winner = "player"],
            ended |-> TRUE] }
    ELSE { [b |-> b, result |-> res, ended |-> FALSE] }

\* a termination check that looks at the enemy team before the player team
check_battle_end_enemy_first(b, res) ==
    IF get_enemy_available_monsters(b) = {}
    THEN { [b |-> b2,
            result |-> [res EXCEPT !.battle_ended = TRUE, !.winner = "player",
                                   !.messages = Append(@, "victory")],
            ended |-> TRUE]
           : b2 \in calculate_battle_rewards([b EXCEPT !.is_active = FALSE]) }
    ELSE IF get_player_available_monsters(b) = {}
    THEN { [b |-> [b EXCEPT !.is_active = FALSE],
            result |-> [res EXCEPT !.battle_ended = TRUE, !.winner = "enemy",
                                   !.messages = Append(@, "all_fainted")],
            ended |-> TRUE] }
    ELSE { [b |-> b,
            result |-> [res EXCEPT
                !.player_monster_fainted = IF player_monster(b).current_hp <= 0 THEN TRUE ELSE @],
            ended |-> FALSE] }

\* a termination check that sends out the last enemy member with
\* current_hp > 0 instead of the first
check_battle_end_sending_last(b, res) ==
    IF get_player_available_monsters(b) = {}
    THEN { [b |-> [b EXCEPT !.is_active = FALSE],
            result |-> [res EXCEPT !.battle_ended = TRUE, !.winner = "enemy",
                                   !.messages = Append(@, "all_fainted")],
            ended |-> TRUE] }
    ELSE IF get_enemy_available_monsters(b) = {}
    THEN { [b |-> b2,
            result |-> [res EXCEPT !.battle_ended = TRUE, !.winner = "player",
                                   !.messages = Append(@, "victory")],
            ended |-> TRUE]
           : b2 \in calculate_battle_rewards([b EXCEPT !.is_active = FALSE]) }
    ELSE LET player_fainted == player_monster(b).current_hp <= 0
             enemy_fainted == enemy_monster(b).current_hp <= 0
             living == get_enemy_available_monsters(b)
             b2 == IF enemy_fainted
                   THEN [b EXCEPT !.enemy_active_index =
                                     CHOOSE i \in living : \A j \in living : j <= i]
                   ELSE b
         IN { [b |-> b2,
               result |-> [res EXCEPT
                   !.player_monster_fainted = IF player_fainted THEN TRUE ELSE @,
                   !.enemy_monster_fainted = IF enemy_fainted THEN TRUE ELSE @,
                   !.messages = IF enemy_fainted THEN Append(@, "enemy_sent_out") ELSE @],
               ended |-> FALSE] }

\* BattleSystem._check_battle_end: the set of outcomes [b, result, ended]
check_battle_end(b, res) ==
    IF get_player_available_monsters(b) = {}
    THEN { [b |-> [b EXCEPT !.is_active = FALSE],
            result |-> [res EXCEPT !.battle_ended = TRUE, !.winner = "enemy",
                                   !.messages = Append(@, "all_fainted")],
            ended |-> TRUE] }
    ELSE IF get_enemy_available_monsters(b) = {}
    THEN { [b |-> b2,
            result |-> [res EXCEPT !.battle_ended = TRUE, !.winner = "player",
                                   !.messages = Append(@, "victory")],
            ended |-> TRUE]
           : b2 \in calculate_battle_rewards([b EXCEPT !.is_active = FALSE]) }
    ELSE LET player_fainted == player_monster(b).current_hp <= 0
             enemy_fainted == enemy_monster(b).current_hp <= 0
             \* the enemy side sends out its first member with current_hp > 0
             b2 == IF enemy_fainted
                   THEN [b EXCEPT !.enemy_active_index =
                                     FirstOf(get_enemy_available_monsters(b))]
                   ELSE b
         IN { [b |-> b2,
               result |-> [res EXCEPT
                   !.player_monster_fainted = IF player_fainted THEN TRUE ELSE @,
                   !.enemy_monster_fainted = IF enemy_fainted THEN TRUE ELSE @,
                   !.messages = IF enemy_fainted THEN Append(@, "enemy_sent_out") ELSE @],
               ended |-> FALSE] }

(***************************************************************************)
(* ai_controller.py and the order of the two actions.                      *)
(***************************************************************************)
\* the elements of a sequence
Range(seq) == {seq[i] : i \in 1..Len(seq)}

\* score = effectiveness * power of _boss_ai_select_skill, as a fraction
BossScore(b, skill_id) ==
    LET eff == get_type_effectiveness(SkillTable[skill_id].type, player_monster(b).types)
    IN <<eff[1] * SkillTable[skill_id].power, eff[2]>>

\* the loop of _boss_ai_select_skill over skills[i..]: best_skill afterwards
\* ("" is None)
RECURSIVE BossBest(_, _, _, _, _)
BossBest(b, skills, i, best_skill, best_score) ==
    IF i > Len(skills) THEN best_skill
    ELSE IF HasSkill(skills[i]) /\ FracLess(best_score, BossScore(b, skills[i]))
         THEN BossBest(b, skills, i + 1, skills[i], BossScore(b, skills[i]))
         ELSE BossBest(b, skills, i + 1, best_skill, best_score)

\* the loop with "score >= best_score": the last of the best moves wins
RECURSIVE BossBestLast(_, _, _, _, _)
BossBestLast(b, skills, i, best_skill, best_score) ==
    IF i > Len(skills) THEN best_skill
    ELSE IF HasSkill(skills[i]) /\ ~FracLess(BossScore(b, skills[i]), best_score)
                                /\ FracLess(<<0, 1>>, BossScore(b, skills[i]))
         THEN BossBestLast(b, skills, i + 1, skills[i], BossScore(b, skills[i]))
         ELSE BossBestLast(b, skills, i + 1, best_skill, best_score)

boss_ai_select_skill_last_tie(b, skills) ==
    LET best_skill == BossBestLast(b, skills, 1, "", <<0, 1>>)
    IN IF best_skill # "" THEN {best_skill} ELSE Range(skills)

\* AIController._boss_ai_select_skill: the set of skill ids it can return
boss_ai_select_skill(b, skills) ==
    LET best_skill == BossBest(b, skills, 1, "", <<0, 1>>)
    IN IF best_skill # "" THEN {best_skill} ELSE Range(skills)

\* AIController.generate_enemy_action: the set of actions it can return
generate_enemy_action(b) ==
    LET skills == IF enemy_monster(b).skills = << >> THEN <<"struggle">>
                  ELSE enemy_monster(b).skills
    IN { SkillAction(skill_id) :
           skill_id \in IF b.battle_type = "boss" THEN boss_ai_select_skill(b, skills)
                        ELSE Range(skills) }

\* the priority of an action in _determine_action_order, lines 318-329
ActionPriority(action) ==
    IF action.action_type = "skill" /\ HasSkill(action.skill_id)
    THEN SkillTable[action.skill_id].priority ELSE 0

\* a speed that paralysis does not halve
OrderSpeedNotHalved(b, is_player) == get_effective_stat(b, is_player, "speed")

\* the speed _determine_action_order compares, lines 339-349:
\* int(speed * PARALYZE_SPEED_REDUCTION) for a paralyzed monster
OrderSpeed(b, is_player) ==
    LET speed == get_effective_stat(b, is_player, "speed")
    IN IF ActiveMonster(b, is_player).status = "paralyze" THEN speed \div 2 ELSE speed

\* an order that looks at the speeds only
determine_action_order_by_speed(b, player_action, enemy_action) ==
    IF get_effective_stat(b, TRUE, "speed") >= get_effective_stat(b, FALSE, "speed")
    THEN { [first |-> player_action, second |-> enemy_action, first_is_player |-> TRUE] }
    ELSE { [first |-> enemy_action, second |-> player_action, first_is_player |-> FALSE] }

\* BattleSystem._determine_action_order: the set of results
\* [first, second, first_is_player] it can return
determine_action_order(b, player_action, enemy_action) ==
    LET PlayerFirst == [first |-> player_action, second |-> enemy_action,
                        first_is_player |-> TRUE]
        EnemyFirst == [first |-> enemy_action, second |-> player_action,
                       first_is_player |-> FALSE]
        player_priority == ActionPriority(player_action)
        enemy_priority == ActionPriority(enemy_action)
        player_speed == OrderSpeed(b, TRUE)
        enemy_speed == OrderSpeed(b, FALSE)
    IN IF player_action.action_type = "switch" THEN {PlayerFirst}
       ELSE IF enemy_action.action_type = "switch" THEN {EnemyFirst}
       ELSE IF player_priority # enemy_priority
            THEN (IF player_priority > enemy_priority THEN {PlayerFirst} ELSE {EnemyFirst})
            ELSE IF player_speed = enemy_speed THEN {PlayerFirst, EnemyFirst}
                 ELSE IF player_speed > enemy_speed THEN {PlayerFirst} ELSE {EnemyFirst}

(***************************************************************************)
(* The battles process_turn is run on, and what the caller passes to it.   *)
(***************************************************************************)
P1 == Monster("p1", 5, <<"normal">>, 6, 12, <<"tackle", "swords_dance", "recover", "thunder_wave">>)

P2 == Monster("p2", 5, <<"fire">>, 8, 8, <<"ember", "barrier", "growl", "confuse_ray">>)

E1 == Monster("e1", 5, <<"grass">>, 6, 14, <<"quick_attack", "swords_dance", "toxic">>)

E2 == Monster("e2", 4, <<"water">>, 6, 8, <<"absorb", "aqua_ring", "hypnosis">>)

B1 == Monster("b1", 6, <<"ice">>, 12, 8, <<"tackle", "ember", "growl">>)

\* the battles of create_wild_battle and create_boss_battle, and a trainer
\* battle (BattleType.TRAINER) against a team of two
Scenarios ==
    { [battle_type |-> "wild", enemy_team |-> <<E1>>, weather |-> "clear",
       can_flee |-> TRUE, can_catch |-> TRUE],
      [battle_type |-> "wild", enemy_team |-> <<E2>>, weather |-> "sunny",
       can_flee |-> TRUE, can_catch |-> TRUE],
      [battle_type |-> "boss", enemy_team |-> <<B1>>, weather |-> "hail",
       can_flee |-> FALSE, can_catch |-> FALSE],
      [battle_type |-> "trainer", enemy_team |-> <<E1, E2>>, weather |-> "clear",
       can_flee |-> TRUE, can_catch |-> TRUE] }

\* no action: the value of the locals of process_turn while no call runs
NoAction == [action_type |-> "none"]

\* PlayerManager.get_buff_multiplier(player_id, "catch_rate") in percent: the
\* player holds no catch_rate buff
get_buff_multiplier == 100

\* the skill, switch and item actions a caller passes: a skill of the active
\* monster or an id the configuration lacks, a member of the team or an id
\* that is not in it, an item of the configuration or an id it lacks
PlayerActions ==
    { SkillAction(id) : id \in Range(player_monster(Battle).skills) \cup {"struggle"} }
    \cup { SwitchAction(id) : id \in {"p1", "p2", "nobody"} }
    \cup { ItemAction(id) : id \in {"potion", "antidote", "elixir"} }

\* the ball ids a caller passes with a CATCH action: a capture tool, an item
\* that is none, and no id at all
BallChoices == {"ball", "potion", ""}

Init ==
    /\ \E sc \in Scenarios :
          /\ battle_type = sc.battle_type
          /\ enemy_team = sc.enemy_team
          /\ weather = sc.weather
          /\ can_flee = sc.can_flee
          /\ can_catch = sc.can_catch
    /\ player_team = <<P1, P2>>
    /\ player_active_index = 0
    /\ enemy_active_index = 0
    /\ weather_turns = 0
    /\ turn_count = 0
    /\ is_active = TRUE
    /\ player_stat_stages = ZeroStages
    /\ enemy_stat_stages = ZeroStages
    /\ exp_gained = 0
    /\ coins_gained = 0
    /\ items_dropped = << >>
    /\ inventory = [ball |-> 1]
    /\ result = NewTurnResult(0, weather)
    /\ pc = "idle"
    /\ first_action = NoAction
    /\ second_action = NoAction
    /\ first_is_player = TRUE

(***************************************************************************)
(* BattleSystem.process_turn, step by step.                                *)
(***************************************************************************)
\* the BattleState object becomes b
SetBattle(b) ==
    /\ battle_type' = b.battle_type
    /\ player_team' = b.player_team
    /\ player_active_index' = b.player_active_index
    /\ enemy_team' = b.enemy_team
    /\ enemy_active_index' = b.enemy_active_index
    /\ weather' = b.weather
    /\ weather_turns' = b.weather_turns
    /\ turn_count' = b.turn_count
    /\ is_active' = b.is_active
    /\ can_flee' = b.can_flee
    /\ can_catch' = b.can_catch
    /\ player_stat_stages' = b.player_stat_stages
    /\ enemy_stat_stages' = b.enemy_stat_stages
    /\ exp_gained' = b.exp_gained
    /\ coins_gained' = b.coins_gained
    /\ items_dropped' = b.items_dropped

\* process_turn returns: its locals are gone
Return ==
    /\ pc' = "idle"
    /\ first_action' = NoAction
    /\ second_action' = NoAction
    /\ first_is_player' = TRUE

\* lines 240-241: the turn counter advances and the TurnResult is created
Entered == [Battle EXCEPT !.turn_count = @ + 1]

\* a process_turn whose failed FLEE still runs the end-of-turn effects
TurnFleeThenTurnEnd ==
    /\ pc = "idle"
    /\ turn_count < MaxTurns
    /\ \E flee_result \in process_flee(Entered) :
          /\ SetBattle(IF flee_result.success
                       THEN [Entered EXCEPT !.is_active = FALSE]
                       ELSE process_turn_end(Entered).b)
          /\ result' = [NewTurnResult(Entered.turn_count, Entered.weather) EXCEPT
                           !.messages = <<flee_result.message>>,
                           !.battle_ended = flee_result.success,
                           !.winner = IF flee_result.success THEN "flee" ELSE ""]
    /\ Return
    /\ UNCHANGED inventory

\* process_turn with a FLEE action, lines 240-251 (the whole call)
TurnFlee ==
    /\ pc = "idle"
    /\ turn_count < MaxTurns
    /\ \E flee_result \in process_flee(Entered) :
          /\ SetBattle(IF flee_result.success
                       THEN [Entered EXCEPT !.is_active = FALSE] ELSE Entered)
          /\ result' = [NewTurnResult(Entered.turn_count, Entered.weather) EXCEPT
                           !.messages = <<flee_result.message>>,
                           !.battle_ended = flee_result.success,
                           !.winner = IF flee_result.success THEN "flee" ELSE ""]
    /\ Return
    /\ UNCHANGED inventory

\* a process_turn whose successful capture computes the rewards of a victory
TurnCatchWithRewards(player_action) ==
    /\ pc = "idle"
    /\ turn_count < MaxTurns
    /\ \E catch_result \in process_catch(Entered, player_action, inventory,
                                         get_buff_multiplier) :
          /\ IF catch_result.success
             THEN \E b2 \in calculate_battle_rewards([Entered EXCEPT !.is_active = FALSE]) :
                     SetBattle(b2)
             ELSE SetBattle(Entered)
          /\ inventory' = catch_result.inventory
          /\ result' = [NewTurnResult(Entered.turn_count, Entered.weather) EXCEPT
                           !.messages = <<catch_result.message>>,
                           !.battle_ended = catch_result.success,
                           !.winner = IF catch_result.success THEN "catch" ELSE "",
                           !.caught_monster = IF catch_result.success
                                              THEN enemy_monster(Entered).instance_id
                                              ELSE ""]
    /\ Return

\* process_turn with a CATCH action, lines 240-262 (the whole call)
TurnCatch(player_action) ==
    /\ pc = "idle"
    /\ turn_count < MaxTurns
    /\ \E catch_result \in process_catch(Entered, player_action, inventory,
                                         get_buff_multiplier) :
          /\ SetBattle(IF catch_result.success
                       THEN [Entered EXCEPT !.is_active = FALSE] ELSE Entered)
          /\ inventory' = catch_result.inventory
          /\ result' = [NewTurnResult(Entered.turn_count, Entered.weather) EXCEPT
                           !.messages = <<catch_result.message>>,
                           !.battle_ended = catch_result.success,
                           !.winner = IF catch_result.success THEN "catch" ELSE "",
                           !.caught_monster = IF catch_result.success
                                              THEN enemy_monster(Entered).instance_id
                                              ELSE ""]
    /\ Return

\* process_turn with any other action, lines 240-270: the enemy's action is
\* generated and the order of the two actions is decided
TurnBegin(player_action) ==
    /\ pc = "idle"
    /\ turn_count < MaxTurns
    /\ \E enemy_action \in generate_enemy_action(Entered) :
          \E order \in determine_action_order(Entered, player_action, enemy_action) :
             /\ first_action' = order.first
             /\ second_action' = order.second
             /\ first_is_player' = order.first_is_player
    /\ SetBattle(Entered)
    /\ result' = NewTurnResult(Entered.turn_count, Entered.weather)
    /\ pc' = "first"
    /\ UNCHANGED inventory

\* lines 273-275 and 282-284: one action is executed and recorded
Execute(action, is_player, next_pc) ==
    /\ \E o \in ExecuteAction(Battle, action, is_player) :
          /\ SetBattle(o.b)
          /\ result' = [result EXCEPT !.messages = @ \o o.r.messages,
                                      !.actions = Append(@, o.r)]
    /\ pc' = next_pc
    /\ UNCHANGED <<inventory, first_action, second_action, first_is_player>>

\* lines 278-279 and 287-288: the battle-end check; process_turn returns
\* when it finds the battle over
Check(next_pc) ==
    /\ \E o \in check_battle_end(Battle, result) :
          /\ SetBattle(o.b)
          /\ result' = o.result
          /\ IF o.ended
             THEN Return
             ELSE /\ pc' = next_pc
                  /\ UNCHANGED <<first_action, second_action, first_is_player>>
    /\ UNCHANGED inventory

ExecuteFirst ==
    /\ pc = "first"
    /\ Execute(first_action, first_is_player, "check1")

CheckAfterFirst ==
    /\ pc = "check1"
    /\ Check("second")

ExecuteSecond ==
    /\ pc = "second"
    /\ Execute(second_action, ~first_is_player, "check2")

CheckAfterSecond ==
    /\ pc = "check2"
    /\ Check("turn_end")

\* lines 291-292
TurnEnd ==
    /\ pc = "turn_end"
    /\ LET e == process_turn_end(Battle)
       IN /\ SetBattle(e.b)
          /\ result' = [result EXCEPT !.messages = @ \o e.messages]
    /\ pc' = "check3"
    /\ UNCHANGED <<inventory, first_action, second_action, first_is_player>>

\* lines 295-297: the last check, then process_turn returns whatever it found
FinalCheck ==
    /\ pc = "check3"
    /\ \E o \in check_battle_end(Battle, result) :
          /\ SetBattle(o.b)
          /\ result' = o.result
    /\ Return
    /\ UNCHANGED inventory

Next ==
    \/ TurnFlee
    \/ \E ball_id \in BallChoices : TurnCatch(CatchAction(ball_id))
    \/ \E player_action \in PlayerActions : TurnBegin(player_action)
    \/ ExecuteFirst
    \/ CheckAfterFirst
    \/ ExecuteSecond
    \/ CheckAfterSecond
    \/ TurnEnd
    \/ FinalCheck

Spec == Init /\ [][Next]_vars

(***************************************************************************)
(* _determine_action_order on its own: SpecOrder applies it to battles     *)
(* whose two active monsters have the same base speed and differ in speed  *)
(* stage, paralysis and the percent buff / debuff get_effective_stat       *)
(* reads, and to every pair of actions, a Switch of the enemy included     *)
(* (generate_enemy_action never returns one).                              *)
(***************************************************************************)
\* the speed stages of the battles of SpecOrder
OrderStages == {-2, 0, 1}

\* the "_buff_speed" / "_debuff_speed" percents of the battles of SpecOrder
OrderPercents == {0, 50}

\* the actions of one side: moves of priority 0 and 1, a move the
\* configuration lacks, an item, a Switch
OrderActions(switch_to_id) ==
    { SkillAction("tackle"), SkillAction("quick_attack"), SkillAction("struggle"),
      ItemAction("potion"), SwitchAction(switch_to_id) }

InitOrder ==
    /\ \E player_stage \in OrderStages, enemy_stage \in OrderStages,
          player_status \in {"none", "paralyze"}, enemy_status \in {"none", "paralyze"},
          player_buff \in OrderPercents, enemy_debuff \in OrderPercents :
          /\ player_team = << [P1 EXCEPT !.status = player_status,
                                         !.buff["speed"] = player_buff], P2 >>
          /\ enemy_team = << [E1 EXCEPT !.stats.speed = P1.stats.speed,
                                        !.status = enemy_status,
                                        !.debuff["speed"] = enemy_debuff], E2 >>
          /\ player_stat_stages = [ZeroStages EXCEPT !["speed"] = player_stage]
          /\ enemy_stat_stages = [ZeroStages EXCEPT !["speed"] = enemy_stage]
    /\ battle_type = "trainer"
    /\ weather = "clear"
    /\ can_flee = TRUE
    /\ can_catch = TRUE
    /\ player_active_index = 0
    /\ enemy_active_index = 0
    /\ weather_turns = 0
    /\ turn_count = 0
    /\ is_active = TRUE
    /\ exp_gained = 0
    /\ coins_gained = 0
    /\ items_dropped = << >>
    /\ inventory = [ball |-> 1]
    /\ result = NewTurnResult(0, weather)
    /\ pc = "idle"
    /\ first_action = NoAction
    /\ second_action = NoAction
    /\ first_is_player = TRUE

\* _determine_action_order(battle, player_action, enemy_action) is called and
\* its result is kept
DetermineOrder(player_action, enemy_action) ==
    /\ pc = "idle"
    /\ \E order \in determine_action_order(Battle, player_action, enemy_action) :
          /\ first_action' = order.first
          /\ second_action' = order.second
          /\ first_is_player' = order.first_is_player
    /\ pc' = "first"
    /\ UNCHANGED <<battle_type, player_team, player_active_index, enemy_team,
                   enemy_active_index, weather, weather_turns, turn_count, is_active,
                   can_flee, can_catch, player_stat_stages, enemy_stat_stages,
                   exp_gained, coins_gained, items_dropped, inventory, result>>

NextOrder ==
    \E player_action \in OrderActions("p2"), enemy_action \in OrderActions("e2") :
        DetermineOrder(player_action, enemy_action)

SpecOrder == InitOrder /\ [][NextOrder]_vars

(***************************************************************************)
(* Stat-stage change effects on their own: SpecStage applies               *)
(* _process_single_effect to sequences of "_up" / "_down" effects of       *)
(* either side, with values of both signs, small and beyond the range.     *)
(***************************************************************************)
\* the "value" of the effects of SpecStage
StageValues == {-13, -2, 3, 7}

\* the effects of SpecStage; an effect without "value" has the default
\* magnitude, one without "target" aims at the opponent
StageEffects ==
    { [type |-> t, value |-> v, target |-> tg] :
        t \in {"attack_up", "attack_down"}, v \in StageValues, tg \in {"self", "enemy"} }
    \cup { [type |-> "attack_up", target |-> "self"], [type |-> "attack_down"] }

InitStage ==
    /\ battle_type = "wild"
    /\ player_team = <<P1, P2>>
    /\ enemy_team = <<E1>>
    /\ weather = "clear"
    /\ can_flee = TRUE
    /\ can_catch = TRUE
    /\ player_active_index = 0
    /\ enemy_active_index = 0
    /\ weather_turns = 0
    /\ turn_count = 0
    /\ is_active = TRUE
    /\ player_stat_stages = ZeroStages
    /\ enemy_stat_stages = ZeroStages
    /\ exp_gained = 0
    /\ coins_gained = 0
    /\ items_dropped = << >>
    /\ inventory = [ball |-> 1]
    /\ result = NewTurnResult(0, weather)
    /\ pc = "idle"
    /\ first_action = NoAction
    /\ second_action = NoAction
    /\ first_is_player = TRUE

\* _process_single_effect(battle, ..., effect, is_player, ...) is called; the
\* messages it returns are kept in result.messages
ApplyStageEffect(is_player, effect) ==
    /\ pc = "idle"
    /\ LET applied == process_single_effect(Battle, is_player, effect)
       IN /\ SetBattle(applied.b)
          /\ result' = [result EXCEPT !.messages = applied.messages]
    /\ UNCHANGED <<inventory, pc, first_action, second_action, first_is_player>>

NextStage ==
    \E is_player \in BOOLEAN, effect \in StageEffects : ApplyStageEffect(is_player, effect)

SpecStage == InitStage /\ [][NextStage]_vars

(***************************************************************************)
(* The end of a turn on its own: SpecTurnEnd starts where both actions of  *)
(* a turn have been executed and the battle goes on (process_turn is at    *)
(* line 290), in battles that have run for some turns: the active monsters *)
(* are hurt, poisoned or burned, shielded, regenerating or confused, the   *)
(* other member of the player team may have fainted, hail may be falling   *)
(* for a limited number of turns (BattleState.weather_turns).              *)
(***************************************************************************)
\* a wild monster that knows toxic and aqua_ring
E3 == Monster("e3", 5, <<"water">>, 6, 8, <<"toxic", "aqua_ring">>)

\* the weather and its remaining turns (0 = permanent)
TurnEndWeathers ==
    { [weather |-> "clear", weather_turns |-> 0], [weather |-> "hail", weather_turns |-> 0],
      [weather |-> "hail", weather_turns |-> 1], [weather |-> "hail", weather_turns |-> 2] }

\* p2 after barrier (shield of 50% of max_hp for 2 turns, 1 or 2 turns left)
TurnEndShields ==
    { [shield |-> 0, shield_turns |-> 0], [shield |-> 4, shield_turns |-> 1],
      [shield |-> 4, shield_turns |-> 2] }

\* e3 after aqua_ring (regen of 25% for 2 turns, 1 or 2 turns left)
TurnEndRegens ==
    { [regen |-> 0, regen_turns |-> 0], [regen |-> 25, regen_turns |-> 1],
      [regen |-> 25, regen_turns |-> 2] }

\* e3 after p2's confuse_ray (2 turns, 1 or 2 turns left)
TurnEndConfusions ==
    { [confused |-> FALSE, confused_turns |-> 0], [confused |-> TRUE, confused_turns |-> 1],
      [confused |-> TRUE, confused_turns |-> 2] }

InitTurnEnd ==
    /\ \E w \in TurnEndWeathers, p1_hp \in {0, P1.max_hp},
          p2_hp \in {1, 2, P2.max_hp}, p2_status \in {"none", "poison"},
          sh \in TurnEndShields,
          e3_hp \in {1, 2, E3.max_hp}, e3_status \in {"none", "burn"},
          rg \in TurnEndRegens, cf \in TurnEndConfusions :
          /\ weather = w.weather
          /\ weather_turns = w.weather_turns
          /\ player_team = << [P1 EXCEPT !.current_hp = p1_hp],
                              [P2 EXCEPT !.current_hp = p2_hp, !.status = p2_status,
                                         !.shield = sh.shield,
                                         !.shield_turns = sh.shield_turns] >>
          /\ enemy_team = << [E3 EXCEPT !.current_hp = e3_hp, !.status = e3_status,
                                        !.regen = rg.regen, !.regen_turns = rg.regen_turns,
                                        !.confused = cf.confused,
                                        !.confused_turns = cf.confused_turns] >>
          \* this turn the player used an item the configuration lacks and
          \* the enemy's toxic missed
          /\ result = [NewTurnResult(MaxTurns, w.weather) EXCEPT
                          !.actions = << ActionResult(FALSE, <<"no_such_item">>, 0),
                                         ActionResult(TRUE, <<"used_skill", "missed">>, 0) >>,
                          !.messages = <<"no_such_item", "used_skill", "missed">>]
    /\ battle_type = "wild"
    /\ can_flee = TRUE
    /\ can_catch = TRUE
    /\ player_active_index = 1
    /\ enemy_active_index = 0
    /\ turn_count = MaxTurns
    /\ is_active = TRUE
    /\ player_stat_stages = ZeroStages
    /\ enemy_stat_stages = ZeroStages
    /\ exp_gained = 0
    /\ coins_gained = 0
    /\ items_dropped = << >>
    /\ inventory = [ball |-> 1]
    /\ pc = "turn_end"
    /\ first_action = ItemAction("elixir")
    /\ second_action = SkillAction("toxic")
    /\ first_is_player = TRUE

NextTurnEnd ==
    \/ TurnEnd
    \/ FinalCheck

SpecTurnEnd == InitTurnEnd /\ [][NextTurnEnd]_vars

(***************************************************************************)
(* The transient effects: SpecEffects is process_turn on a wild battle in  *)
(* which the player leads with p2 (barrier, confuse_ray) against e2        *)
(* (absorb with its drain, aqua_ring), the player using skills only.       *)
(* Between two turns the percent buff and debuff of EffectProcessor may be *)
(* applied to the active monsters.                                         *)
(***************************************************************************)
\* how often a percent buff or debuff is stacked
MaxStacks == 2

\* the percent effects applied together: accuracy, 50 percent, for 1 or 2
\* turns
PercentEffects ==
    { << [type |-> "accuracy_up", value |-> 50, duration |-> d],
         [type |-> "accuracy_down", value |-> 50, duration |-> d] >> : d \in {1, 2} }

InitEffects ==
    /\ battle_type = "wild"
    /\ enemy_team = <<E2>>
    /\ weather = "clear"
    /\ can_flee = TRUE
    /\ can_catch = TRUE
    /\ player_team = <<P2, P1>>
    /\ player_active_index = 0
    /\ enemy_active_index = 0
    /\ weather_turns = 0
    /\ turn_count = 0
    /\ is_active = TRUE
    /\ player_stat_stages = ZeroStages
    /\ enemy_stat_stages = ZeroStages
    /\ exp_gained = 0
    /\ coins_gained = 0
    /\ items_dropped = << >>
    /\ inventory = [ball |-> 1]
    /\ result = NewTurnResult(0, weather)
    /\ pc = "idle"
    /\ first_action = NoAction
    /\ second_action = NoAction
    /\ first_is_player = TRUE

\* process_turn with one of the skills ember, barrier, confuse_ray
EffectsTurnBegin ==
    /\ is_active
    /\ player_monster(Battle).current_hp > 0
    /\ turn_count < MaxTurns
    /\ \E skill_id \in {"ember", "barrier", "confuse_ray"} :
          /\ pc = "idle"
          /\ \E enemy_action \in generate_enemy_action(Entered) :
                \E order \in determine_action_order(Entered, SkillAction(skill_id),
                                                     enemy_action) :
                   /\ first_action' = order.first
                   /\ second_action' = order.second
                   /\ first_is_player' = order.first_is_player
          /\ SetBattle(Entered)
          /\ result' = NewTurnResult(Entered.turn_count, Entered.weather)
          /\ pc' = "first"
          /\ UNCHANGED inventory

\* EffectProcessor._apply_percent_buff on the player's monster and
\* _apply_percent_debuff by it on the enemy's monster
ApplyPercentEffect ==
    /\ pc = "idle"
    /\ is_active
    /\ \E effects \in PercentEffects :
          LET up == effects[1]
              down == effects[2]
              buffed == apply_percent_buff(Battle, TRUE, up.type, up.value, up)
          IN /\ player_monster(Battle).buff["accuracy"] < MaxStacks * up.value
             /\ SetBattle(apply_percent_debuff(buffed.b, TRUE, down.type,
                                                down.value, down).b)
    /\ UNCHANGED <<inventory, result, pc, first_action, second_action, first_is_player>>

NextEffects ==
    \/ EffectsTurnBegin
    \/ ApplyPercentEffect
    \/ ExecuteFirst
    \/ CheckAfterFirst
    \/ ExecuteSecond
    \/ CheckAfterSecond
    \/ TurnEnd
    \/ FinalCheck

SpecEffects == InitEffects /\ [][NextEffects]_vars

(***************************************************************************)
(* Capture attempts.  Two process_turn calls with a CATCH action run on    *)
(* the same battle of one player; every await of _process_catch is a point *)
(* where the other call may run (the item queries run in a thread,         *)
(* asyncio.to_thread).  Here pc is the pair of the positions of the two    *)
(* calls and first_action / second_action are their actions.               *)
(***************************************************************************)
\* the enemy's monsters a capture is attempted on: rarity, remaining HP and
\* status vary
CatchTargets ==
    { [E2 EXCEPT !.rarity = r, !.current_hp = hp, !.status = st] :
        r \in {1, 3, 5}, hp \in 1..E2.stats.hp, st \in {"none", "paralyze", "sleep"} }

\* the capture tools of the configuration
CaptureBalls == { id \in DOMAIN ItemTable : ItemTable[id].type = "capture" }

\* the player's "catch_rate" buff multiplier in percent (get_buff_multiplier)
BuffMultipliers == {100, 150}

\* the action of the i-th call
CatchActionOf(i) == IF i = 1 THEN first_action ELSE second_action

InitCatch ==
    /\ battle_type = "wild"
    /\ enemy_team \in { <<e>> : e \in CatchTargets }
    /\ weather = "clear"
    /\ can_flee = TRUE
    /\ can_catch = TRUE
    /\ player_team = <<P2, P1>>
    /\ player_active_index = 0
    /\ enemy_active_index = 0
    /\ weather_turns = 0
    /\ turn_count = 0
    /\ is_active = TRUE
    /\ player_stat_stages = ZeroStages
    /\ enemy_stat_stages = ZeroStages
    /\ exp_gained = 0
    /\ coins_gained = 0
    /\ items_dropped = << >>
    /\ inventory \in { [ball |-> 1, great_ball |-> 0], [ball |-> 0, great_ball |-> 1] }
    /\ result = NewTurnResult(0, weather)
    /\ pc = <<"idle", "idle">>
    /\ first_action = NoAction
    /\ second_action = NoAction
    /\ first_is_player = TRUE

\* process_turn lines 239-240 and _process_catch lines 625-638: the turn
\* counter advances, the battle allows a capture and the action names a
\* capture tool
CatchBegin(i) ==
    /\ pc[i] = "idle"
    /\ is_active
    /\ can_catch
    /\ \E ball_id \in CaptureBalls :
          /\ first_action' = IF i = 1 THEN CatchAction(ball_id) ELSE first_action
          /\ second_action' = IF i = 2 THEN CatchAction(ball_id) ELSE second_action
    /\ SetBattle(Entered)
    /\ pc' = [pc EXCEPT ![i] = "has_item"]
    /\ UNCHANGED <<inventory, result, first_is_player>>

\* _process_catch lines 642-644: await has_item; the call returns when the
\* player does not hold the tool
CatchHasItem(i) ==
    /\ pc[i] = "has_item"
    /\ IF has_item(inventory, CatchActionOf(i).ball_id)
       THEN /\ pc' = [pc EXCEPT ![i] = "use_item"]
            /\ UNCHANGED result
       ELSE /\ pc' = [pc EXCEPT ![i] = "rejected"]
            /\ result' = [NewTurnResult(turn_count, weather) EXCEPT
                             !.messages = <<"ball_not_held">>]
    /\ SetBattle(Battle)
    /\ UNCHANGED <<inventory, first_action, second_action, first_is_player>>

\* _process_catch line 646: await use_item, whose result is not looked at
CatchUseItem(i) ==
    /\ pc[i] = "use_item"
    /\ inventory' = use_item(inventory, CatchActionOf(i).ball_id)
    /\ pc' = [pc EXCEPT ![i] = "roll"]
    /\ SetBattle(Battle)
    /\ UNCHANGED <<result, first_action, second_action, first_is_player>>

\* _process_catch lines 648-715 and process_turn lines 253-261: the chance is
\* computed, the roll is made and the call returns
CatchRoll(i) ==
    /\ pc[i] = "roll"
    /\ \E buff_multiplier \in BuffMultipliers :
          \E ok \in DrawBelow(catch_chance(Battle, CatchActionOf(i).ball_id,
                                           buff_multiplier)) :
             /\ SetBattle(IF ok THEN [Battle EXCEPT !.is_active = FALSE] ELSE Battle)
             /\ result' = [NewTurnResult(turn_count, weather) EXCEPT
                              !.messages = <<IF ok THEN "caught" ELSE "broke_free">>,
                              !.battle_ended = ok,
                              !.winner = IF ok THEN "catch" ELSE "",
                              !.caught_monster = IF ok
                                                 THEN enemy_monster(Battle).instance_id
                                                 ELSE ""]
    /\ pc' = [pc EXCEPT ![i] = "resolved"]
    /\ UNCHANGED <<inventory, first_action, second_action, first_is_player>>

NextCatch ==
    \E i \in 1..2 :
       \/ CatchBegin(i)
       \/ CatchHasItem(i)
       \/ CatchUseItem(i)
       \/ CatchRoll(i)

SpecCatch == InitCatch /\ [][NextCatch]_vars

(***************************************************************************)
(* The damage formula on its own.  SpecDamage draws the two monsters, the  *)
(* weather and a stage, a buff and a debuff of one stat of the defending   *)
(* side, and calls GameFormulas.calculate_damage with random_factor=False  *)
(* on the inputs calculate_skill_damage derives from the battle; the       *)
(* inputs and the returned damage are kept in result.actions.              *)
(***************************************************************************)
\* level of the attacker, its attack and sp_attack, the defender's defense
\* and sp_defense
DamageLevels == {5, 10}

DamageAttacks == {10, 50}

DamageDefenses == {9, 50}

\* <<stage, "_debuff_<stat>" percent>> of the stat drawn for the defender:
\* the ends of the stage range, debuffs of 100% and more, and stage -6 with
\* a 90% debuff
DamageStageDebuffs == ({-6, 0, 6} \X {0, 100, 150}) \cup {<<-6, 90>>}

\* the moves of the calls: power 40 physical normal, power 40 special fire,
\* power 0
DamageSkills == {"tackle", "ember", "recover"}

InitDamage ==
    /\ \E level \in DamageLevels, attack \in DamageAttacks, defense \in DamageDefenses,
          types \in {<<"grass">>, <<"water">>}, stat_name \in StageStats,
          sd \in DamageStageDebuffs, buff_percent \in {0, 50} :
          /\ player_team = << [P2 EXCEPT !.level = level, !.stats.attack = attack,
                                         !.stats.sp_attack = attack] >>
          /\ enemy_team = << [E1 EXCEPT !.types = types, !.stats.defense = defense,
                                        !.stats.sp_defense = defense,
                                        !.buff[stat_name] = buff_percent,
                                        !.debuff[stat_name] = sd[2]] >>
          /\ enemy_stat_stages = [ZeroStages EXCEPT ![stat_name] = sd[1]]
    /\ player_stat_stages = ZeroStages
    /\ battle_type = "wild"
    /\ weather \in {"clear", "sunny"}
    /\ can_flee = TRUE
    /\ can_catch = TRUE
    /\ player_active_index = 0
    /\ enemy_active_index = 0
    /\ weather_turns = 0
    /\ turn_count = 0
    /\ is_active = TRUE
    /\ exp_gained = 0
    /\ coins_gained = 0
    /\ items_dropped = << >>
    /\ inventory = [ball |-> 1]
    /\ result = NewTurnResult(0, weather)
    /\ pc = "idle"
    /\ first_action = NoAction
    /\ second_action = NoAction
    /\ first_is_player = TRUE

\* GameFormulas.calculate_damage(..., random_factor=False) for the player's
\* move skill_id on the enemy's monster, with the arguments of
\* calculate_skill_damage (lines 69-111)
CalculateDamage(skill_id, is_critical) ==
    /\ pc = "idle"
    /\ LET skill == SkillTable[skill_id]
           attacker == player_monster(Battle)
           defender == enemy_monster(Battle)
           physical == skill.category = "physical"
           attack_stat == get_effective_stat(Battle, TRUE,
                                             IF physical THEN "attack" ELSE "sp_attack")
           defense_stat == get_effective_stat(Battle, FALSE,
                                              IF physical THEN "defense" ELSE "sp_defense")
           effectiveness == get_type_effectiveness(skill.type, defender.types)
           weather_mod == get_weather_modifier(weather, skill.type)
           is_stab == \E i \in 1..Len(attacker.types) : attacker.types[i] = skill.type
           damage == calculate_damage_no_random(attacker.level, attack_stat,
                         defense_stat, skill.power, effectiveness, weather_mod,
                         is_critical, is_stab)
       IN    result' = [NewTurnResult(0, weather) EXCEPT !.actions =
                          << [ attacker_level |-> attacker.level,
                               attack_stat |-> attack_stat,
                               defense_stat |-> defense_stat,
                               skill_power |-> skill.power,
                               type_effectiveness |-> effectiveness,
                               weather_mod |-> weather_mod,
                               is_critical |-> is_critical,
                               is_stab |-> is_stab,
                               damage |-> damage ] >>]
    /\ first_action' = SkillAction(skill_id)
    /\ pc' = "returned"
    /\ UNCHANGED <<battle_type, player_team, player_active_index, enemy_team,
                   enemy_active_index, weather, weather_turns, turn_count, is_active,
                   can_flee, can_catch, player_stat_stages, enemy_stat_stages,
                   exp_gained, coins_gained, items_dropped, inventory,
                   second_action, first_is_player>>

NextDamage ==
    \E skill_id \in DamageSkills, is_critical \in BOOLEAN :
       CalculateDamage(skill_id, is_critical)

SpecDamage == InitDamage /\ [][NextDamage]_vars

(***************************************************************************)
(* The boss AI on its own: SpecBossAI draws the boss's move list and the   *)
(* types of the player's monster and calls generate_enemy_action; the      *)
(* action it returns is kept in second_action.                             *)
(***************************************************************************)
\* the longest move list of a boss of SpecBossAI
MaxSkills == 3

\* the ids of the move lists: power 40 of three types, power 0, and an id
\* the configuration lacks
BossSkillIds == {"tackle", "ember", "absorb", "growl", "struggle"}

BossSkillLists == UNION { [1..n -> BossSkillIds] : n \in 1..MaxSkills }

InitBossAI ==
    /\ battle_type = "boss"
    /\ \E skills \in BossSkillLists : enemy_team = << [B1 EXCEPT !.skills = skills] >>
    /\ \E types \in {<<"normal">>, <<"fire">>, <<"water">>, <<"grass">>, <<"water", "grass">>} :
          player_team = << [P1 EXCEPT !.types = types] >>
    /\ weather = "clear"
    /\ can_flee = FALSE
    /\ can_catch = FALSE
    /\ player_active_index = 0
    /\ enemy_active_index = 0
    /\ weather_turns = 0
    /\ turn_count = 0
    /\ is_active = TRUE
    /\ player_stat_stages = ZeroStages
    /\ enemy_stat_stages = ZeroStages
    /\ exp_gained = 0
    /\ coins_gained = 0
    /\ items_dropped = << >>
    /\ inventory = [ball |-> 1]
    /\ result = NewTurnResult(0, weather)
    /\ pc = "idle"
    /\ first_action = NoAction
    /\ second_action = NoAction
    /\ first_is_player = TRUE

\* AIController.generate_enemy_action(battle) is called and its result kept
GenerateEnemyAction ==
    /\ pc = "idle"
    /\ second_action' \in generate_enemy_action(Battle)
    /\ pc' = "returned"
    /\ UNCHANGED <<battle_type, player_team, player_active_index, enemy_team,
                   enemy_active_index, weather, weather_turns, turn_count, is_active,
                   can_flee, can_catch, player_stat_stages, enemy_stat_stages,
                   exp_gained, coins_gained, items_dropped, inventory, result,
                   first_action, first_is_player>>

NextBossAI == GenerateEnemyAction

SpecBossAI == InitBossAI /\ [][NextBossAI]_vars

(***************************************************************************)
(* Battles under a weather that runs out: SpecWeather plays whole turns    *)
(* from battles whose weather has 0 (permanent) to MaxTurns + 1 turns      *)
(* left.                                                                   *)
(***************************************************************************)
InitWeather ==
    /\ battle_type = "wild"
    /\ enemy_team = <<E2>>
    /\ \E w \in {"clear", "sunny", "hail"} :
          /\ weather = w
          /\ weather_turns \in (IF w = "clear" THEN {0} ELSE 0..(MaxTurns + 1))
    /\ can_flee = TRUE
    /\ can_catch = TRUE
    /\ player_team = <<P2, P1>>
    /\ player_active_index = 0
    /\ enemy_active_index = 0
    /\ turn_count = 0
    /\ is_active = TRUE
    /\ player_stat_stages = ZeroStages
    /\ enemy_stat_stages = ZeroStages
    /\ exp_gained = 0
    /\ coins_gained = 0
    /\ items_dropped = << >>
    /\ inventory = [ball |-> 1]
    /\ result = NewTurnResult(0, weather)
    /\ pc = "idle"
    /\ first_action = NoAction
    /\ second_action = NoAction
    /\ first_is_player = TRUE

NextWeather ==
    \/ EffectsTurnBegin
    \/ ExecuteFirst
    \/ CheckAfterFirst
    \/ ExecuteSecond
    \/ CheckAfterSecond
    \/ TurnEnd
    \/ FinalCheck

SpecWeather == InitWeather /\ [][NextWeather]_vars

(***************************************************************************)
(* The status gate: SpecGate is process_turn on the wild battle of         *)
(* SpecEffects, entered with each active monster healthy, asleep, frozen   *)
(* or paralyzed.                                                           *)
(***************************************************************************)
GateStatuses == {"none", "sleep", "freeze", "paralyze"}

InitGate ==
    /\ battle_type = "wild"
    /\ \E ps \in GateStatuses, es \in GateStatuses :
          /\ player_team = << [P2 EXCEPT !.status = ps], P1 >>
          /\ enemy_team = << [E2 EXCEPT !.status = es] >>
    /\ weather = "clear"
    /\ can_flee = TRUE
    /\ can_catch = TRUE
    /\ player_active_index = 0
    /\ enemy_active_index = 0
    /\ weather_turns = 0
    /\ turn_count = 0
    /\ is_active = TRUE
    /\ player_stat_stages = ZeroStages
    /\ enemy_stat_stages = ZeroStages
    /\ exp_gained = 0
    /\ coins_gained = 0
    /\ items_dropped = << >>
    /\ inventory = [ball |-> 1]
    /\ result = NewTurnResult(0, weather)
    /\ pc = "idle"
    /\ first_action = NoAction
    /\ second_action = NoAction
    /\ first_is_player = TRUE

NextGate ==
    \/ EffectsTurnBegin
    \/ ExecuteFirst
    \/ CheckAfterFirst
    \/ ExecuteSecond
    \/ CheckAfterSecond
    \/ TurnEnd
    \/ FinalCheck

SpecGate == InitGate /\ [][NextGate]_vars

(***************************************************************************)
(* The automatic replacement: SpecReplace is process_turn on a trainer     *)
(* battle against a team of three, whose first two members enter the       *)
(* turn hurt or at full HP.                                                *)
(***************************************************************************)
InitReplace ==
    /\ battle_type = "trainer"
    /\ \E h1 \in {1, E1.max_hp}, h2 \in {1, E2.max_hp} :
          enemy_team = << [E1 EXCEPT !.current_hp = h1],
                          [E2 EXCEPT !.current_hp = h2], E3 >>
    /\ player_team = <<P2, P1>>
    /\ weather = "clear"
    /\ can_flee = TRUE
    /\ can_catch = TRUE
    /\ player_active_index = 0
    /\ enemy_active_index = 0
    /\ weather_turns = 0
    /\ turn_count = 0
    /\ is_active = TRUE
    /\ player_stat_stages = ZeroStages
    /\ enemy_stat_stages = ZeroStages
    /\ exp_gained = 0
    /\ coins_gained = 0
    /\ items_dropped = << >>
    /\ inventory = [ball |-> 1]
    /\ result = NewTurnResult(0, weather)
    /\ pc = "idle"
    /\ first_action = NoAction
    /\ second_action = NoAction
    /\ first_is_player = TRUE

SpecReplace == InitReplace /\ [][NextGate]_vars

(***************************************************************************)
(* The status damage over whole turns: SpecTick is process_turn on a wild  *)
(* battle against a burned or poisoned monster that only growls, the       *)
(* player putting up a barrier every turn, so that nothing but the         *)
(* end-of-turn tick touches the enemy's HP.                                *)
(***************************************************************************)
\* how many turns are played
MaxTickTurns == 17

\* the max_hp of the burned or poisoned monster
TickMaxHps == {1, 7, 8, 16, 17, 33}

InitTick ==
    /\ battle_type = "wild"
    /\ \E m \in TickMaxHps, st \in {"burn", "poison"} :
          enemy_team = << [Monster("e4", 5, <<"grass">>, m, 14, <<"growl">>)
                             EXCEPT !.status = st] >>
    /\ player_team = <<P2, P1>>
    /\ weather = "clear"
    /\ can_flee = TRUE
    /\ can_catch = TRUE
    /\ player_active_index = 0
    /\ enemy_active_index = 0
    /\ weather_turns = 0
    /\ turn_count = 0
    /\ is_active = TRUE
    /\ player_stat_stages = ZeroStages
    /\ enemy_stat_stages = ZeroStages
    /\ exp_gained = 0
    /\ coins_gained = 0
    /\ items_dropped = << >>
    /\ inventory = [ball |-> 1]
    /\ result = NewTurnResult(0, weather)
    /\ pc = "idle"
    /\ first_action = NoAction
    /\ second_action = NoAction
    /\ first_is_player = TRUE

\* process_turn with the skill barrier
TickTurnBegin ==
    /\ is_active
    /\ turn_count < MaxTickTurns
    /\ pc = "idle"
    /\ \E enemy_action \in generate_enemy_action(Entered) :
          \E order \in determine_action_order(Entered, SkillAction("barrier"),
                                               enemy_action) :
             /\ first_action' = order.first
             /\ second_action' = order.second
             /\ first_is_player' = order.first_is_player
    /\ SetBattle(Entered)
    /\ result' = NewTurnResult(Entered.turn_count, Entered.weather)
    /\ pc' = "first"
    /\ UNCHANGED inventory

NextTick ==
    \/ TickTurnBegin
    \/ ExecuteFirst
    \/ CheckAfterFirst
    \/ ExecuteSecond
    \/ CheckAfterSecond
    \/ TurnEnd
    \/ FinalCheck

SpecTick == InitTick /\ [][NextTick]_vars

(***************************************************************************)
(* The properties checked against the model.                               *)
(***************************************************************************)
\* every monster of both teams
AllMonsters == Range(player_team) \cup Range(enemy_team)

\* while process_turn runs: the action the player passed and the one the
\* enemy's AI generated
PlayerActionNow == IF first_is_player THEN first_action ELSE second_action

EnemyActionNow == IF first_is_player THEN second_action ELSE first_action

\* at pc = "first" / "second": the side whose action is executed next, its
\* active monster and the action
ActsNextIsPlayer == IF pc = "first" THEN first_is_player ELSE ~first_is_player

ActsNext == ActiveMonster(Battle, ActsNextIsPlayer)

ActionNext == IF pc = "first" THEN first_action ELSE second_action

\* the current_hp of every member of both teams, in team order
HPs == << [i \in DOMAIN player_team |-> player_team[i].current_hp],
          [i \in DOMAIN enemy_team |-> enemy_team[i].current_hp] >>

\* C1: for every monster of either team, 0 <= current_hp <= max_hp holds in
\* every reachable state, whatever sequence of process_turn calls (attacks
\* with shield absorption, drain, heal effects, items, regen, burn / poison
\* damage, weather damage) led to it
C1_HPWithinBounds ==
    \A m \in AllMonsters : 0 <= m.current_hp /\ m.current_hp <= m.max_hp

\* C1 witness: the enemy moved first and its hit was larger than all the HP
\* the player's monster can have; the monster is at 0
C1_OverkillLeavesZero ==
    /\ pc = "check1"
    /\ ~first_is_player
    /\ player_monster(Battle).current_hp = 0
    /\ result.actions[1].damage > player_monster(Battle).max_hp

\* C2: a monster whose current HP is 0 cannot act: when the active monster of
\* a side has HP 0 at the moment its attack is executed in process_turn, the
\* action deals no damage, applies no secondary effect and changes no state
C2_FaintedMonsterCannotAct ==
    [][ ( /\ pc \in {"first", "second"}
          /\ ActionNext.action_type = "skill"
          /\ ActsNext.current_hp = 0 )
        => ( /\ Battle' = Battle
             /\ result'.actions[Len(result'.actions)].damage = 0 ) ]_vars

\* a Switch to that id is invalid: no member of the player team has the id,
\* or the member has HP 0
InvalidSwitchTarget(switch_to_id) ==
    \/ IndexOfId(player_team, switch_to_id) < 0
    \/ player_team[IndexOfId(player_team, switch_to_id) + 1].current_hp <= 0

\* C3: an invalid action is rejected before any state mutation and the turn
\* does not advance: a Switch to an id that is not in the player team or to a
\* monster with HP 0, or a Flee / capture attempt while can_flee / can_catch
\* is false, leaves the turn counter, every monster, both sides' stat stages
\* and the weather unchanged, and the opposing side performs no action
\* (process_turn does not go on to execute actions)
C3_InvalidActionRejected ==
    [][ ( /\ pc = "idle"
          /\ \/ result'.messages = <<"cannot_flee">>
             \/ result'.messages = <<"cannot_catch">>
             \/ /\ pc' = "first"
                /\ first_is_player'
                /\ first_action'.action_type = "switch"
                /\ InvalidSwitchTarget(first_action'.switch_to_id) )
        => ( /\ Battle' = Battle
             /\ pc' = "idle" ) ]_vars

\* C4: when the player's active monster has fainted and the battle is still
\* active, a process_turn call whose player action is not a Switch executes
\* no action of either side (and so reaches no end-of-turn effects): the
\* step after the order was decided records no executed action and leaves
\* the battle as it is
C4_FaintedPlayerMustSwitch ==
    [][ ( /\ pc = "first"
          /\ is_active
          /\ player_monster(Battle).current_hp = 0
          /\ PlayerActionNow.action_type # "switch" )
        => ( /\ result'.actions = result.actions
             /\ Battle' = Battle ) ]_vars

\* what C5 says of one step of process_turn
C5_Step ==
    LET player_wiped == get_player_available_monsters(Battle) = {}
        enemy_wiped == get_enemy_available_monsters(Battle) = {}
        ended == ~is_active' /\ result'.battle_ended
    IN /\ pc \in {"check1", "check2", "check3"} =>
             /\ ended <=> (player_wiped \/ enemy_wiped)
             /\ player_wiped => result'.winner = "enemy"
             /\ (~player_wiped /\ enemy_wiped) => result'.winner = "player"
             /\ ~(player_wiped \/ enemy_wiped) => result'.winner = ""
             /\ pc # "check3" => ((pc' = "idle") <=> (player_wiped \/ enemy_wiped))
       /\ (pc = "idle" /\ pc' = "idle") =>
             /\ ended <=> (result'.messages \in {<<"fled">>, <<"caught">>})
             /\ result'.messages = <<"fled">> => result'.winner = "flee"
             /\ result'.messages = <<"caught">> => result'.winner = "catch"
             /\ ~ended => result'.winner = ""
       /\ (pc \in {"first", "second", "turn_end"} \/ pc' = "first") =>
             /\ is_active' = is_active
             /\ ~result'.battle_ended
       /\ (pc' = "idle" /\ is_active') =>
             /\ get_player_available_monsters(Battle') # {}
             /\ get_enemy_available_monsters(Battle') # {}

\* C5: after every process_turn call, is_active is false and the TurnResult
\* is marked ended if and only if, during that call, a termination check
\* found a side with no monster of HP > 0 or a Flee / capture succeeded; the
\* outcome tag is then enemy (player side wiped), player (enemy side wiped),
\* flee or catch; and whenever a call leaves the battle active, both teams
\* have a monster with HP > 0.  Stated per step: each termination check ends
\* the battle exactly when it sees a wiped side, a Flee / capture call ends it
\* exactly when it succeeds, no other step touches is_active or the ended mark
C5_EndedIffWipedOrEscaped == [][C5_Step]_vars

\* C5 witness: a call has returned with the player side wiped: the battle is
\* inactive, the result ended with the tag enemy
C5_PlayerWipedEnds ==
    /\ pc = "idle"
    /\ get_player_available_monsters(Battle) = {}
    /\ ~is_active
    /\ result.battle_ended
    /\ result.winner = "enemy"

\* C6: the terminal state is absorbing: once is_active is false, no later
\* process_turn call makes the battle active again, changes any monster's HP,
\* advances the turn counter or changes the reward accumulator (exp_gained,
\* coins_gained, items_dropped)
C6_TerminalAbsorbing ==
    [][ ~is_active
        => ( /\ ~is_active'
             /\ HPs' = HPs
             /\ turn_count' = turn_count
             /\ <<exp_gained, coins_gained, items_dropped>>'
                  = <<exp_gained, coins_gained, items_dropped>> ) ]_vars

\* C7: in action-order resolution a Switch always goes before the other
\* side's action whatever the speeds and priorities are, and when both sides
\* submit a Switch the player's goes first
C7_SwitchGoesFirst ==
    pc = "first" =>
        /\ PlayerActionNow.action_type = "switch" => first_is_player
        /\ ( /\ EnemyActionNow.action_type = "switch"
             /\ PlayerActionNow.action_type # "switch" ) => ~first_is_player

\* C7 witness: the enemy's Switch goes before a priority-1 move of a faster
\* player
C7_EnemySwitchBeatsFastMove ==
    /\ pc = "first"
    /\ ~first_is_player
    /\ first_action = SwitchAction("e2")
    /\ second_action = SkillAction("quick_attack")
    /\ get_effective_stat(Battle, TRUE, "speed") > get_effective_stat(Battle, FALSE, "speed")
    /\ player_monster(Battle).status = "none"

\* the priority the claim gives an action: the move's, 0 for a missing move
\* or an action that is no move
C8_Priority(action) ==
    IF action.action_type = "skill" /\ action.skill_id \in DOMAIN SkillTable
    THEN SkillTable[action.skill_id].priority ELSE 0

\* the speed the claim compares: the effective Speed (stage, buff and debuff
\* applied), halved for a paralyzed monster
C8_Speed(is_player) ==
    IF ActiveMonster(Battle, is_player).status = "paralyze"
    THEN get_effective_stat(Battle, is_player, "speed") \div 2
    ELSE get_effective_stat(Battle, is_player, "speed")

\* C8: when neither action is a Switch, the side whose move has the strictly
\* higher priority acts first; with equal priorities the side with the
\* strictly higher effective Speed acts first; only equal speeds let either
\* side act first
C8_PriorityThenSpeed ==
    ( /\ pc = "first"
      /\ PlayerActionNow.action_type # "switch"
      /\ EnemyActionNow.action_type # "switch" )
    => /\ C8_Priority(PlayerActionNow) > C8_Priority(EnemyActionNow) => first_is_player
       /\ C8_Priority(PlayerActionNow) < C8_Priority(EnemyActionNow) => ~first_is_player
       /\ ( /\ C8_Priority(PlayerActionNow) = C8_Priority(EnemyActionNow)
            /\ C8_Speed(TRUE) > C8_Speed(FALSE) ) => first_is_player
       /\ ( /\ C8_Priority(PlayerActionNow) = C8_Priority(EnemyActionNow)
            /\ C8_Speed(TRUE) < C8_Speed(FALSE) ) => ~first_is_player

\* C8 witness: equal priorities, a paralyzed player as fast as an enemy at
\* speed stage -2, and the enemy acts first
C8_EqualSpeedEnemyFirst ==
    /\ pc = "first"
    /\ first_action = SkillAction("tackle")
    /\ second_action = SkillAction("tackle")
    /\ player_monster(Battle).status = "paralyze"
    /\ enemy_monster(Battle).status = "none"
    /\ enemy_stat_stages["speed"] = -2
    /\ C8_Speed(TRUE) = C8_Speed(FALSE)
    /\ ~first_is_player

C10_StagesClampedSilently ==
    [][ /\ \A s \in StageStats :
              /\ player_stat_stages'[s] \in STAT_STAGE_MIN..STAT_STAGE_MAX
              /\ enemy_stat_stages'[s] \in STAT_STAGE_MIN..STAT_STAGE_MAX
        /\ ( /\ player_stat_stages' = player_stat_stages
             /\ enemy_stat_stages' = enemy_stat_stages ) => result'.messages = << >> ]_vars

\* C10 witness: an effect has just been applied without a message while the
\* player's attack stage is at the upper end and the enemy's at the lower one
C10_ClampedAtBothEnds ==
    /\ player_stat_stages["attack"] = STAT_STAGE_MAX
    /\ enemy_stat_stages["attack"] = STAT_STAGE_MIN
    /\ result.messages = << >>

\* the messages of a Flee / capture call that did not end the battle
FailedEscapeMessages ==
    {"cannot_flee", "flee_failed", "cannot_catch", "no_ball_chosen", "not_a_ball",
     "ball_not_held", "broke_free"}

\* C11: a Flee or capture action that fails consumes the turn with no action
\* from either side: process_turn returns at once, no action is executed or
\* recorded, no end-of-turn effect is applied, and of the battle (every
\* monster's HP, status, shield / regen / buff fields, both sides' stat
\* stages, the weather and its counter) only the turn counter changes, by one
C11_FailedEscapeOnlyAdvancesTurn ==
    [][ ( /\ pc = "idle"
          /\ result'.messages # << >>
          /\ result'.messages[1] \in FailedEscapeMessages )
        => ( /\ pc' = "idle"
             /\ result'.actions = << >>
             /\ ~result'.battle_ended
             /\ Battle' = [Battle EXCEPT !.turn_count = @ + 1] ) ]_vars

\* C11 witness: the second call of a battle was a Flee whose roll failed while
\* the player's active monster was poisoned in the first turn: the call
\* returned without the poison damage of a turn end
C11_FailedFleeInSecondTurn ==
    /\ pc = "idle"
    /\ turn_count = 2
    /\ result.turn_number = 2
    /\ result.messages = <<"flee_failed">>
    /\ player_monster(Battle).status = "poison"
    /\ player_monster(Battle).current_hp = player_monster(Battle).max_hp - 1

\* C12: in a battle created by create_boss_battle can_flee and can_catch are
\* false for the whole battle, and no sequence of player actions ends it with
\* the outcome flee or catch: a result marked ended says player or enemy
C12_BossNeverFledOrCaught ==
    battle_type = "boss" =>
        /\ ~can_flee
        /\ ~can_catch
        /\ result.winner \notin {"flee", "catch"}
        /\ result.battle_ended => result.winner \in {"player", "enemy"}

\* C12 witness: in the second turn of a boss battle still going on the player
\* tried to flee and was refused
C12_BossRefusesFlee ==
    /\ battle_type = "boss"
    /\ pc = "idle"
    /\ turn_count = 2
    /\ is_active
    /\ result.messages = <<"cannot_flee">>

\* the action executed next names a move / an item the configuration lacks
UnknownSkillNext == ActionNext.action_type = "skill" /\ ~HasSkill(ActionNext.skill_id)

UnknownItemNext == ActionNext.action_type = "item" /\ ~HasItem(ActionNext.item_id)

\* the record of the action a step has just executed
LastAction == result'.actions[Len(result'.actions)]

\* C13 as stated: an attack with a move id or an item use with an item id
\* that is absent from the configuration reports a failure message and
\* changes no monster field and no stat stage, while the turn counter has
\* advanced by one and the turn goes on to its next step
C13_UnknownIdIsNoOp ==
    [][ /\ ( pc \in {"first", "second"} /\ (UnknownSkillNext \/ UnknownItemNext) )
           => ( /\ Battle' = Battle
                /\ ~LastAction.success
                /\ LastAction.messages \in {<<"no_such_skill">>, <<"no_such_item">>}
                /\ pc' = (IF pc = "first" THEN "check1" ELSE "check2") )
        /\ ( pc = "idle" /\ pc' = "first" ) => turn_count' = turn_count + 1 ]_vars

\* C13 amended: the status gate of _execute_skill comes before the move
\* lookup.  An item use with an absent id, and an attack with an absent move
\* id by an attacker that is not asleep, frozen or paralyzed, report the
\* failure and change nothing; an attacker that is asleep or frozen either
\* wakes (its status is cleared, nothing else changes, the failure is
\* reported after the wake-up message) or forfeits the action with the gate's
\* message and no failure; a paralyzed attacker either reports the failure or
\* forfeits the action.  In every case the action is recorded, the turn
\* counter advanced by one when the call began and the turn goes on
C13_UnknownIdIsNoOpAfterStatusGate ==
    [][ /\ ( pc \in {"first", "second"} /\ UnknownItemNext )
           => ( /\ Battle' = Battle
                /\ ~LastAction.success
                /\ LastAction.messages = <<"no_such_item">> )
        /\ ( pc \in {"first", "second"} /\ UnknownSkillNext )
           => LET status == ActsNext.status
                  woken == SetActive(Battle, ActsNextIsPlayer,
                                     [ActsNext EXCEPT !.status = "none"])
              IN \/ /\ status \notin {"sleep", "freeze"}
                    /\ Battle' = Battle
                    /\ ~LastAction.success
                    /\ LastAction.messages = <<"no_such_skill">>
                 \/ /\ status \in {"sleep", "freeze"}
                    /\ Battle' = woken
                    /\ ~LastAction.success
                    /\ LastAction.messages = <<"woke_up", "no_such_skill">>
                 \/ /\ status \in {"sleep", "freeze", "paralyze"}
                    /\ Battle' = Battle
                    /\ LastAction.success
                    /\ LastAction.messages = <<"cannot_move">>
        /\ ( pc \in {"first", "second"} /\ (UnknownSkillNext \/ UnknownItemNext) )
           => ( /\ result'.actions = Append(result.actions, LastAction)
                /\ LastAction.damage = 0
                /\ pc' = (IF pc = "first" THEN "check1" ELSE "check2") )
        /\ ( pc = "idle" /\ pc' = "first" ) => turn_count' = turn_count + 1 ]_vars

\* C13 witness: a sleeping monster of the player was told to use a move the
\* configuration lacks; it woke and the failure was reported, and the enemy's
\* action is still to come
C13_WokeThenNoSuchSkill ==
    /\ pc = "check1"
    /\ first_is_player
    /\ first_action = SkillAction("struggle")
    /\ result.actions[1].messages = <<"woke_up", "no_such_skill">>
    /\ player_monster(Battle).status = "none"
    /\ turn_count = 2

\* the reward accumulator of the battle
Rewards == <<exp_gained, coins_gained, items_dropped>>

\* C14: whenever a termination check runs while every member of the player
\* team has HP 0, the battle ends at once with the outcome enemy (the
\* opponent wins) and no rewards are computed, also when every enemy monster
\* is at HP 0 at the same check
C14_PlayerWipeEndsWithoutRewards ==
    [][ ( /\ pc \in {"check1", "check2", "check3"}
          /\ get_player_available_monsters(Battle) = {} )
        => ( /\ ~is_active'
             /\ result'.battle_ended
             /\ result'.winner = "enemy"
             /\ Rewards' = Rewards
             /\ pc' = "idle" ) ]_vars

\* C14 witness: a check has just ended the battle for the enemy with both
\* teams wiped and nothing in the reward accumulator
C14_DoubleKnockOut ==
    /\ pc = "idle"
    /\ get_player_available_monsters(Battle) = {}
    /\ get_enemy_available_monsters(Battle) = {}
    /\ ~is_active
    /\ result.winner = "enemy"
    /\ Rewards = <<0, 0, << >> >>

\* the accumulator of a battle that has computed no rewards
NoRewards == <<0, 0, << >>>>

\* C15: the reward accumulator is written only on a player victory. It is
\* empty while the battle is active; a step changes it only if that step is
\* a termination check that ends with winner player; and a step that ends
\* with winner flee, catch or enemy leaves it untouched (empty, when the
\* battle was active until then).
C15_RewardsOnlyOnPlayerVictory ==
    [][ /\ (is_active => Rewards = NoRewards)
        /\ (Rewards' # Rewards =>
               /\ pc \in {"check1", "check2", "check3"}
               /\ ~is_active'
               /\ result'.battle_ended /\ result'.winner = "player")
        /\ (result'.battle_ended /\ result'.winner \in {"flee", "catch", "enemy"} =>
               /\ Rewards' = Rewards
               /\ (is_active => Rewards' = NoRewards)) ]_vars

\* a battle that ended by capture in its second turn, with nothing in the
\* accumulator
C15_CaughtWithoutRewards ==
    /\ ~is_active /\ result.battle_ended /\ result.winner = "catch"
    /\ turn_count = 2 /\ Rewards = NoRewards

\* the sum of the levels of the first n members of the enemy team
RECURSIVE EnemyLevelsUpTo(_)
EnemyLevelsUpTo(n) == IF n = 0 THEN 0 ELSE enemy_team[n].level + EnemyLevelsUpTo(n - 1)

\* C16: after a victory the coins stored in the battle are
\* (50 + 10 * the sum of the levels of all enemy team members), times 5 in a
\* boss battle and times 1 in any other.
C16_CoinsOnVictory ==
    (result.battle_ended /\ result.winner = "player") =>
        coins_gained = (50 + 10 * EnemyLevelsUpTo(Len(enemy_team)))
                         * (IF battle_type = "boss" THEN 5 ELSE 1)

\* a victory over a team of two
C16_VictoryOverTwo ==
    /\ result.battle_ended /\ result.winner = "player"
    /\ Len(enemy_team) = 2
    /\ coins_gained = 50 + 10 * (enemy_team[1].level + enemy_team[2].level)

\* a victory over the boss, of level 6
C16_VictoryOverBoss ==
    /\ result.battle_ended /\ result.winner = "player"
    /\ battle_type = "boss"
    /\ coins_gained = 550

\* a duration counter after one decay
Decayed(turns) == IF turns > 0 THEN turns - 1 ELSE 0

\* the damage of the weather w on the monster m at the end of a turn
WeatherDamageOf(m, w) ==
    IF /\ w \in DOMAIN WeatherTable
       /\ WeatherTable[w].dot_damage > 0
       /\ \A i \in 1..Len(m.types) : m.types[i] \notin WeatherTable[w].dot_immune_types
    THEN Max(1, (m.max_hp * WeatherTable[w].dot_damage) \div 100)
    ELSE 0

\* n is the monster m after the end of a turn in the weather w: weather
\* damage, then burn / poison damage if it still stands, then regen and the
\* decay of the counters if it still stands; a monster that fell keeps
\* everything but its HP
AfterTurnEnd(m, n, w) ==
    LET hp1 == Max(0, m.current_hp - WeatherDamageOf(m, w))
        status_damage == IF m.status = "burn" THEN Max(1, m.max_hp \div 16)
                         ELSE IF m.status = "poison" THEN Max(1, m.max_hp \div 8)
                         ELSE 0
        hp2 == IF hp1 > 0 THEN Max(0, hp1 - status_damage) ELSE 0
        regenerating == m.regen > 0 /\ m.regen_turns > 0
        heal == IF regenerating THEN Max(1, (m.max_hp * m.regen) \div 100) ELSE 0
    IN IF hp2 = 0 THEN n = [m EXCEPT !.current_hp = 0]
       ELSE /\ n.current_hp = Min(m.max_hp, hp2 + heal)
            /\ n.regen_turns = IF regenerating THEN m.regen_turns - 1 ELSE m.regen_turns
            /\ n.shield_turns = Decayed(m.shield_turns)
            /\ n.confused_turns = Decayed(m.confused_turns)
            /\ \A st \in MODIFIABLE_STATS :
                  /\ n.buff_turns[st] = Decayed(m.buff_turns[st])
                  /\ n.debuff_turns[st] = Decayed(m.debuff_turns[st])
            /\ n.status = m.status

\* the place of a message in the order of the end-of-turn steps
TurnEndRank(message) ==
    CASE message = "weather_damage" -> 1
      [] message \in {"burn_damage", "poison_damage"} -> 2
      [] message = "weather_cleared" -> 4
      [] OTHER -> 3

\* the messages the step has appended to the result
AppendedMessages == SubSeq(result'.messages, Len(result.messages) + 1, Len(result'.messages))

\* C17: at the end of a turn in which both actions were executed, each
\* active monster takes the weather damage of the turn's weather, then its
\* burn / poison damage, then its regen heal and the decay of its shield,
\* confusion, buff and debuff counters; a monster brought to HP 0 by an
\* earlier step gets none of the later ones; the weather counter decays
\* last (a weather that expires this turn has still done its damage); the
\* messages come in that order, and the final termination check follows.
C17_TurnEndOrder ==
    [][ /\ pc = "turn_end" =>
              /\ AfterTurnEnd(player_team[player_active_index + 1],
                              player_team'[player_active_index + 1], weather)
              /\ AfterTurnEnd(enemy_team[enemy_active_index + 1],
                              enemy_team'[enemy_active_index + 1], weather)
              /\ weather_turns' = Decayed(weather_turns)
              /\ weather' = IF weather_turns = 1 THEN "clear" ELSE weather
              /\ \A i, j \in 1..Len(AppendedMessages) :
                    i < j => TurnEndRank(AppendedMessages[i]) <= TurnEndRank(AppendedMessages[j])
              /\ Len(result'.messages) >= Len(result.messages)
              /\ pc' = "check3"
        /\ pc = "check3" =>
              /\ pc' = "idle"
              /\ result'.battle_ended <=>
                    (get_player_available_monsters(Battle) = {}
                     \/ get_enemy_available_monsters(Battle) = {}) ]_vars

\* the hail ends this turn and has still knocked out the burned,
\* regenerating, confused enemy, which then takes no burn damage and keeps
\* its counters, while the player's monster stands and its shield runs out
C17_FellToExpiringHail ==
    /\ pc = "check3"
    /\ weather = "clear"
    /\ \E i, j \in 1..Len(result.messages) :
          /\ i < j
          /\ result.messages[i] = "weather_damage"
          /\ result.messages[j] = "weather_cleared"
    /\ \A i \in 1..Len(result.messages) : result.messages[i] # "burn_damage"
    /\ enemy_team[1].current_hp = 0
    /\ enemy_team[1].status = "burn"
    /\ enemy_team[1].regen_turns = 2
    /\ enemy_team[1].confused_turns = 2
    /\ player_team[2].current_hp > 0
    /\ player_team[2].status = "poison"
    /\ \E i \in 1..Len(result.messages) : result.messages[i] = "shield_expired"

\* every transient effect of the monster m that is active has a positive
\* counter
ActiveEffectsCounted(m) ==
    /\ m.shield > 0 => m.shield_turns > 0
    /\ m.regen > 0 => m.regen_turns > 0
    /\ m.confused => m.confused_turns > 0
    /\ \A st \in MODIFIABLE_STATS :
          /\ m.buff[st] > 0 => m.buff_turns[st] > 0
          /\ m.debuff[st] > 0 => m.debuff_turns[st] > 0

\* every transient effect of m that is no longer active in n has its
\* counter at 0 in n
ClearedEffectsAtZero(m, n) ==
    /\ (m.shield > 0 /\ n.shield = 0) => n.shield_turns = 0
    /\ (m.regen > 0 /\ n.regen = 0) => n.regen_turns = 0
    /\ (m.confused /\ ~n.confused) => n.confused_turns = 0
    /\ \A st \in MODIFIABLE_STATS :
          /\ (m.buff[st] > 0 /\ n.buff[st] = 0) => n.buff_turns[st] = 0
          /\ (m.debuff[st] > 0 /\ n.debuff[st] = 0) => n.debuff_turns[st] = 0

\* C18: for every monster of both teams, a shield pool, a regen percent, a
\* confusion flag, a buff percent or a debuff percent is active only with
\* a counter greater than 0 (so it is cleared at the latest in the step in
\* which its counter reaches 0), and a step that clears one leaves its
\* counter at 0 (none is cleared while its counter is still positive).
C18_EffectsLiveWithTheirCounters ==
    /\ [](/\ \A i \in 1..Len(player_team) : ActiveEffectsCounted(player_team[i])
          /\ \A i \in 1..Len(enemy_team) : ActiveEffectsCounted(enemy_team[i]))
    /\ [][ /\ \A i \in 1..Len(player_team) :
                 ClearedEffectsAtZero(player_team[i], player_team'[i])
           /\ \A i \in 1..Len(enemy_team) :
                 ClearedEffectsAtZero(enemy_team[i], enemy_team'[i]) ]_vars

\* the end of the second turn: the shield of the first turn and the
\* stacked accuracy buff have run out with their counters, the enemy's
\* regen of this turn has one more turn to go
C18_ShieldAndBuffRanOut ==
    /\ pc = "check3"
    /\ turn_count = 2
    /\ \E i, j \in 1..Len(result.messages) :
          result.messages[i] = "shield_expired" /\ result.messages[j] = "buff_expired"
    /\ player_team[1].shield = 0 /\ player_team[1].shield_turns = 0
    /\ player_team[1].buff["accuracy"] = 0 /\ player_team[1].buff_turns["accuracy"] = 0
    /\ enemy_team[1].debuff["accuracy"] = 0
    /\ enemy_team[1].regen = 25 /\ enemy_team[1].regen_turns = 1

\* the side whose action the step at pc executes
ActingIsPlayer == IF pc = "first" THEN first_is_player ELSE ~first_is_player

\* the monster an attack of the acting side hits, before and after the step
Defender == ActiveMonster(Battle, ~ActingIsPlayer)

DefenderAfter ==
    IF ActingIsPlayer THEN enemy_team'[enemy_active_index + 1]
    ELSE player_team'[player_active_index + 1]

\* the step has executed an attack that hit and computed damage
AttackLanded ==
    /\ pc \in {"first", "second"}
    /\ Len(result'.actions) = Len(result.actions) + 1
    /\ \E i \in 1..Len(LastAction.messages) : LastAction.messages[i] = "damage"

\* C19: when an attack with raw damage D hits a defender with shield pool S
\* and HP H, the shield absorbs min(S, D): the new pool is S - min(S, D),
\* the new HP is max(0, H - (D - min(S, D))), and the HP is not reduced at
\* all when D <= S.
C19_ShieldAbsorbsFirst ==
    [][ AttackLanded =>
          LET D == LastAction.damage
              S == Defender.shield
              H == Defender.current_hp
              absorbed == Min(S, D)
          IN /\ D > 0
             /\ DefenderAfter.shield = S - absorbed
             /\ DefenderAfter.current_hp = Max(0, H - (D - absorbed))
             /\ D <= S => DefenderAfter.current_hp = H
             /\ (\E i \in 1..Len(LastAction.messages) :
                    LastAction.messages[i] = "shield_absorbed") <=> S > 0 ]_vars

\* an attack has used up what was left of a shield and the rest of its
\* damage has reached the defender
C19_ShieldBrokenAndHurt ==
    /\ pc \in {"check1", "check2"}
    /\ LET last == result.actions[Len(result.actions)]
       IN /\ \E i, j \in 1..Len(last.messages) :
                last.messages[i] = "shield_absorbed" /\ last.messages[j] = "shield_broken"
          /\ last.damage = 3
    /\ player_team[1].shield = 0 /\ player_team[1].shield_turns = 0
    /\ player_team[1].current_hp = player_team[1].max_hp - 1

\* the monster whose action the step at pc executes, before and after it
Attacker == ActiveMonster(Battle, ActingIsPlayer)

AttackerAfter ==
    IF ActingIsPlayer THEN player_team'[player_active_index + 1]
    ELSE enemy_team'[enemy_active_index + 1]

\* C20: the drain heal of an attack is computed from the raw damage, before
\* the shield absorbs any of it: an attacker with drain percent p that deals
\* raw damage D is healed by floor(D * p / 100), capped at its max HP,
\* whatever part of D the defender's shield absorbed.
C20_DrainFromRawDamage ==
    [][ (AttackLanded /\ Attacker.drain_percent > 0) =>
          AttackerAfter.current_hp =
              Min(Attacker.max_hp,
                  Attacker.current_hp
                    + (LastAction.damage * Attacker.drain_percent) \div 100) ]_vars

\* the action the step at pc executes
ActingAction == IF pc = "first" THEN first_action ELSE second_action

\* the drain percent the move of the executed action carries (0: none)
CarriedDrain ==
    LET effects == SkillTable[ActingAction.skill_id].effects
    IN IF \E i \in 1..Len(effects) : effects[i].type = "drain"
       THEN (CHOOSE e \in Range(effects) : e.type = "drain").value
       ELSE 0

\* C21: a drain effect is consumed on the attack that carries it: no drain
\* flag is left on a monster once its action is over; an attack with a
\* drain move that reaches the HP of an unshielded defender heals the
\* attacker from its own damage; an attack with a move that has no drain
\* effect does not heal the attacker.
C21_DrainConsumedOnSameAttack ==
    /\ [](/\ \A i \in 1..Len(player_team) : player_team[i].drain_percent = 0
          /\ \A i \in 1..Len(enemy_team) : enemy_team[i].drain_percent = 0)
    /\ [][ AttackLanded =>
             IF CarriedDrain > 0
             THEN Defender.shield = 0 =>
                    AttackerAfter.current_hp =
                        Min(Attacker.max_hp,
                            Attacker.current_hp
                              + (LastAction.damage * CarriedDrain) \div 100)
             ELSE AttackerAfter.current_hp <= Attacker.current_hp ]_vars

\* the message m is among msgs
Said(msgs, m) == \E i \in 1..Len(msgs) : msgs[i] = m

\* the step has executed a skill action that got as far as the hit check
SkillUsed ==
    /\ pc \in {"first", "second"}
    /\ Len(result'.actions) = Len(result.actions) + 1
    /\ ActingAction.action_type = "skill"
    /\ Said(LastAction.messages, "used_skill")

\* what the effect e of a move that hit has done when it is certain
\* (chance 100): the drain flag, the shield, the regen, the confusion or
\* the status it gives
EffectDone(e) ==
    CASE e.type = "drain" ->
            Said(LastAction.messages, "drain_marked") /\ AttackerAfter.drain_percent = e.value
      [] e.type = "shield" ->
            Said(LastAction.messages, "shield_applied") /\ AttackerAfter.shield_turns = e.duration
      [] e.type = "regen" ->
            AttackerAfter.regen = e.value /\ AttackerAfter.regen_turns = e.duration
      [] e.type = "confuse" ->
            DefenderAfter.current_hp > 0 => DefenderAfter.confused
      [] e.type \in {"sleep", "poison", "paralyze"} ->
            (DefenderAfter.current_hp > 0 /\ Defender.status = "none"
               /\ \A i \in 1..Len(Defender.types) :
                     Defender.types[i] # STATUS_IMMUNITY(e.type))
            => DefenderAfter.status = e.type
      [] OTHER -> TRUE

\* C22: an attack never applies its damage without attempting its effects.
\* When the hit check of a skill action passed, every certain effect of the
\* move has been processed within the same action, also when the damage was
\* absorbed by a shield or knocked the defender out; when the hit check
\* failed, the action has dealt no damage and changed neither monster
\* (but for the attacker having woken up before) nor any stat stage.
C22_EffectsFollowEveryHit ==
    [][ SkillUsed =>
          IF Said(LastAction.messages, "missed")
          THEN /\ LastAction.damage = 0
               /\ DefenderAfter = Defender
               /\ AttackerAfter = [Attacker EXCEPT
                      !.status = IF Said(LastAction.messages, "woke_up") THEN "none" ELSE @]
               /\ player_stat_stages' = player_stat_stages
               /\ enemy_stat_stages' = enemy_stat_stages
          ELSE LET effects == SkillTable[ActingAction.skill_id].effects
               IN \A i \in 1..Len(effects) :
                     EffectGet(effects[i], "chance", 100) >= 100 => EffectDone(effects[i]) ]_vars

\* an absorb has knocked the defender out and its drain effect has still
\* been processed
C22_EffectAfterKnockOut ==
    /\ pc \in {"check1", "check2"}
    /\ LET last == result.actions[Len(result.actions)]
       IN /\ Said(last.messages, "fainted")
          /\ Said(last.messages, "drain_marked")
    /\ player_team[player_active_index + 1].current_hp = 0
    /\ enemy_team[enemy_active_index + 1].drain_percent = 50

\* the status of the monster m has become that of n in a rightful way: a
\* status is never replaced by another; a status is set only by a status
\* effect of the move just used, on the defender, if it stands and none of
\* its types is immune; a status is lifted only by waking / thawing at the
\* start of the monster's own action or by an item
StatusChangeAllowed(m, n) ==
    /\ m.status # "none" => n.status \in {m.status, "none"}
    /\ (m.status = "none" /\ n.status # "none") =>
          /\ SkillUsed
          /\ m = Defender
          /\ \E e \in Range(SkillTable[ActingAction.skill_id].effects) : e.type = n.status
          /\ n.current_hp > 0
          /\ \A i \in 1..Len(n.types) : n.types[i] # STATUS_IMMUNITY(n.status)
    /\ (m.status # "none" /\ n.status = "none") =>
          /\ pc \in {"first", "second"}
          /\ \/ ActingAction.action_type = "item"
             \/ /\ m.status \in {"sleep", "freeze"}
                /\ m = Attacker
                /\ Said(LastAction.messages, "woke_up")

\* C23: a status effect never overwrites a status, never sets one on a
\* monster with HP 0, never sets burn on a fire type, freeze on an ice
\* type, paralyze on an electric type or poison on a poison type, and
\* otherwise sets the status of the effect; a status only changes from none
\* to a status by an effect and from a status to none by waking, thawing
\* or an item.
C23_StatusOnlySetOnHealthyUnaffected ==
    [][ /\ \A i \in 1..Len(player_team) : StatusChangeAllowed(player_team[i], player_team'[i])
        /\ \A i \in 1..Len(enemy_team) : StatusChangeAllowed(enemy_team[i], enemy_team'[i])
        /\ (SkillUsed /\ ~Said(LastAction.messages, "missed")) =>
              \A e \in Range(SkillTable[ActingAction.skill_id].effects) :
                 (e.type \in STATUS_NAMES_CN /\ EffectGet(e, "chance", 100) >= 100
                    /\ Defender.status = "none" /\ DefenderAfter.current_hp > 0
                    /\ \A i \in 1..Len(Defender.types) :
                          Defender.types[i] # STATUS_IMMUNITY(e.type))
                 => DefenderAfter.status = e.type ]_vars

\* the trainer's second monster has used hypnosis on a poisoned monster,
\* which stays poisoned and awake
C23_PoisonedNotPutToSleep ==
    /\ battle_type = "trainer"
    /\ pc \in {"check1", "check2"}
    /\ (IF pc = "check1" THEN first_action ELSE second_action) = SkillAction("hypnosis")
    /\ (pc = "check1") = ~first_is_player
    /\ result.actions[Len(result.actions)].messages = <<"used_skill">>
    /\ player_team[player_active_index + 1].status = "poison"
    /\ player_team[player_active_index + 1].current_hp > 0

\* C24: processing an effect of type <stat>_up with value v and duration d
\* adds v to the buff percent of the acting monster for that stat and sets
\* the remaining duration of that buff to the larger of the existing
\* duration and d.
C24_StatUpAddsPercentBuff ==
    [][ (SkillUsed /\ ~Said(LastAction.messages, "missed")) =>
          \A e \in Range(SkillTable[ActingAction.skill_id].effects) :
             (e.type \in {"attack_up", "defense_up", "sp_attack_up", "sp_defense_up",
                          "speed_up", "accuracy_up", "evasion_up", "critical_up"}
                /\ EffectGet(e, "chance", 100) >= 100)
             => LET st == StatNameOf(e.type)
                IN /\ AttackerAfter.buff[st] = Attacker.buff[st] + e.value
                   /\ AttackerAfter.buff_turns[st] =
                         Max(Attacker.buff_turns[st],
                             EffectGet(e, "duration", DEFAULT_BUFF_DURATION)) ]_vars


\* the battle with the enemy's active monster at hp remaining HP
EnemyAtHp(b, hp) ==
    [b EXCEPT !.enemy_team[b.enemy_active_index + 1].current_hp = hp]

\* the lower and the upper end of the configured clamp range
CatchRateMin == <<CatchConfig.catch_rate_cap.min, 100>>

CatchRateMax == <<CatchConfig.catch_rate_cap.max, 100>>

\* C25: whatever the rarity's base rate, the tool and the player's buff
\* multiplier, the chance of a capture attempt lies in the configured clamp
\* range, and against the same target with less HP left the chance is the
\* same or higher
C25_CatchChanceClampedAndFallingInHp ==
    \A ball_id \in CaptureBalls, buff_multiplier \in BuffMultipliers :
       LET chance == catch_chance(Battle, ball_id, buff_multiplier)
       IN /\ ~FracLess(chance, CatchRateMin)
          /\ ~FracLess(CatchRateMax, chance)
          /\ \A hp \in 0..enemy_monster(Battle).current_hp :
                ~FracLess(catch_chance(EnemyAtHp(Battle, hp), ball_id, buff_multiplier),
                          chance)

\* a call is about to roll against a hurt target: its chance is strictly
\* inside the clamp range, higher than against the unhurt target and lower
\* than against the target at 1 HP
C25_RollAgainstHurtTarget ==
    \E i \in 1..2, buff_multiplier \in BuffMultipliers :
       /\ pc[i] = "roll"
       /\ LET ball_id == CatchActionOf(i).ball_id
              enemy == enemy_monster(Battle)
              chance == catch_chance(Battle, ball_id, buff_multiplier)
          IN /\ FracLess(CatchRateMin, chance)
             /\ FracLess(chance, CatchRateMax)
             /\ FracLess(catch_chance(EnemyAtHp(Battle, enemy.stats.hp), ball_id,
                                       buff_multiplier), chance)
             /\ FracLess(chance, catch_chance(EnemyAtHp(Battle, 1), ball_id,
                                               buff_multiplier))

\* the calls whose success roll has been made
ResolvedAttempts == { i \in 1..2 : pc[i] = "resolved" }

\* the capture tools taken from the inventory since the battle began (the
\* player held one)
DebitedTools == 1 - (inventory["ball"] + inventory["great_ball"])

\* C26: under every interleaving of the capture attempts of one player, the
\* number of attempts whose success roll has been made never exceeds the
\* number of capture tools debited from the inventory
C26_ResolvedWithinDebited == Cardinality(ResolvedAttempts) <= DebitedTools

\* the battle with the enemy's active monster carrying the status st
EnemyWithStatus(b, st) ==
    [b EXCEPT !.enemy_team[b.enemy_active_index + 1].status = st]

\* the status modifier of the capture formula, in percent
StatusModifier(st) ==
    IF st \in {"sleep", "freeze"} THEN 250
    ELSE IF st \in {"paralyze", "burn", "poison"} THEN 150
    ELSE 100

\* C27: the chance of a capture attempt against a target with a status is
\* the chance against the same target without a status times the status
\* modifier (2.5 for sleep and freeze, 1.5 for paralyze, burn and poison),
\* whenever both values lie inside the clamp range
C27_StatusModifierInCatchChance ==
    \A ball_id \in CaptureBalls, buff_multiplier \in BuffMultipliers :
       LET st == enemy_monster(Battle).status
           chance == catch_chance(Battle, ball_id, buff_multiplier)
           plain == catch_chance(EnemyWithStatus(Battle, "none"), ball_id,
                                 buff_multiplier)
           scaled == Reduce(<<plain[1] * StatusModifier(st), plain[2] * 100>>)
       IN (/\ FracLess(CatchRateMin, plain)
           /\ FracLess(scaled, CatchRateMax))
          => chance = scaled

\* C28: for either side (each has an active monster) and every stat name,
\* whatever the stage, the buff and the debuff of the stat, get_effective_stat
\* is at least 1; so is the defense value a damage call divides by
C28_EffectiveStatAtLeastOne ==
    /\ \A is_player \in BOOLEAN, stat_name \in MODIFIABLE_STATS :
          get_effective_stat(Battle, is_player, stat_name) >= 1
    /\ result.actions # << >> => result.actions[1].defense_stat >= 1

\* a damage call divided by a defense whose stage is -6 and whose debuff is
\* 90% or more
C28_DividedByCrushedDefense ==
    /\ pc = "returned"
    /\ first_action = SkillAction("tackle")
    /\ enemy_stat_stages["defense"] = -6
    /\ enemy_monster(Battle).debuff["defense"] >= 90
    /\ result.actions[1].defense_stat = 1
    /\ result.actions[1].damage > 1

\* the call whose inputs and result are kept in result.actions
DamageCall == result.actions[1]

\* the documented value of a call a:
\* floor((((2*level/5 + 2) * power * atk / def) / 50 + 2) * typeEff
\*       * weatherMod * 1.5 if crit * 1.5 if STAB), at least 1,
\* and 0 when power <= 0
FlooredFormula(a) ==
    IF a.skill_power <= 0 THEN 0
    ELSE LET lv == <<2 * a.attacker_level + 2 * 5, 5>>
             ratio == <<lv[1] * a.skill_power * a.attack_stat, lv[2] * a.defense_stat>>
             base == <<ratio[1] + 2 * 50 * ratio[2], 50 * ratio[2]>>
             typed == <<base[1] * a.type_effectiveness[1], base[2] * a.type_effectiveness[2]>>
             weathered == Reduce(<<typed[1] * a.weather_mod, typed[2] * 100>>)
             crit == IF a.is_critical
                     THEN <<weathered[1] * 3, weathered[2] * 2>> ELSE weathered
             stab == IF a.is_stab THEN <<crit[1] * 3, crit[2] * 2>> ELSE crit
         IN Max(1, stab[1] \div stab[2])

\* C29: with the random factor disabled calculate_damage returns the floor
\* of the documented formula, at least 1 when the power is positive and 0
\* when it is not; level 10, attack 50, defense 50, power 40, neutral type,
\* no critical hit and no STAB give 6
C29_DamageIsFlooredFormula ==
    pc = "returned" =>
       /\ DamageCall.damage = FlooredFormula(DamageCall)
       /\ DamageCall.skill_power > 0 => DamageCall.damage >= 1
       /\ DamageCall.skill_power <= 0 => DamageCall.damage = 0
       /\ (/\ DamageCall.attacker_level = 10
           /\ DamageCall.attack_stat = 50
           /\ DamageCall.defense_stat = 50
           /\ DamageCall.skill_power = 40
           /\ DamageCall.type_effectiveness = <<1, 1>>
           /\ DamageCall.weather_mod = 100
           /\ ~DamageCall.is_critical
           /\ ~DamageCall.is_stab) => DamageCall.damage = 6

\* the values the call is repeated with: powers, attack stats and
\* type-effectiveness multipliers below and above those of SpecDamage
ComparedPowers == {-5, 0, 20, 40, 60}

ComparedAttacks == {1, 10, 25, 50, 60}

ComparedEffectiveness == {<<1, 4>>, <<1, 2>>, <<1, 1>>, <<2, 1>>, <<4, 1>>}

\* the call a repeated with one input replaced
DamageWithPower(a, skill_power) ==
    calculate_damage_no_random(a.attacker_level, a.attack_stat, a.defense_stat,
        skill_power, a.type_effectiveness, a.weather_mod, a.is_critical, a.is_stab)

DamageWithAttack(a, attack_stat) ==
    calculate_damage_no_random(a.attacker_level, attack_stat, a.defense_stat,
        a.skill_power, a.type_effectiveness, a.weather_mod, a.is_critical, a.is_stab)

DamageWithEffectiveness(a, type_effectiveness) ==
    calculate_damage_no_random(a.attacker_level, a.attack_stat, a.defense_stat,
        a.skill_power, type_effectiveness, a.weather_mod, a.is_critical, a.is_stab)

\* C30: with the random factor disabled and the other inputs fixed, a call
\* with a lower power, a lower attack stat or a lower type-effectiveness
\* multiplier never returns more, and one with a higher value never less
C30_DamageMonotone ==
    pc = "returned" =>
       /\ \A p \in ComparedPowers :
             /\ p <= DamageCall.skill_power
                   => DamageWithPower(DamageCall, p) <= DamageCall.damage
             /\ p >= DamageCall.skill_power
                   => DamageWithPower(DamageCall, p) >= DamageCall.damage
       /\ \A v \in ComparedAttacks :
             /\ v <= DamageCall.attack_stat
                   => DamageWithAttack(DamageCall, v) <= DamageCall.damage
             /\ v >= DamageCall.attack_stat
                   => DamageWithAttack(DamageCall, v) >= DamageCall.damage
       /\ \A e \in ComparedEffectiveness :
             /\ ~FracLess(DamageCall.type_effectiveness, e)
                   => DamageWithEffectiveness(DamageCall, e) <= DamageCall.damage
             /\ ~FracLess(e, DamageCall.type_effectiveness)
                   => DamageWithEffectiveness(DamageCall, e) >= DamageCall.damage

\* a call returned a damage that a lower power, a lower attack stat and a
\* lower multiplier each make strictly smaller
C30_EachInputMatters ==
    /\ pc = "returned"
    /\ DamageCall.skill_power = 40
    /\ DamageWithPower(DamageCall, 20) < DamageCall.damage
    /\ DamageWithAttack(DamageCall, 25) < DamageCall.damage
    /\ DamageCall.attack_stat = 50
    /\ DamageWithEffectiveness(DamageCall, <<1, 2>>) < DamageCall.damage
    /\ DamageCall.type_effectiveness = <<2, 1>>

\* the boss's move list, and the score of its i-th move: type effectiveness
\* against the player's active monster times power, 0 for a move the
\* configuration lacks
BossSkills == enemy_monster(Battle).skills

ScoreAt(i) ==
    IF HasSkill(BossSkills[i])
    THEN LET eff == get_type_effectiveness(SkillTable[BossSkills[i]].type,
                                           player_monster(Battle).types)
         IN <<eff[1] * SkillTable[BossSkills[i]].power, eff[2]>>
    ELSE <<0, 1>>

\* the positions of the moves of the configuration whose score is positive
\* and maximal
BestPositions ==
    { i \in 1..Len(BossSkills) :
        /\ HasSkill(BossSkills[i])
        /\ FracLess(<<0, 1>>, ScoreAt(i))
        /\ \A j \in 1..Len(BossSkills) : ~FracLess(ScoreAt(i), ScoreAt(j)) }

\* C31: in a boss battle the AI returns the earliest of the configured
\* moves whose score, type effectiveness against the player's active
\* monster times power, is maximal; when no move has a positive score it
\* returns some move of the list
C31_BossPicksEarliestBest ==
    (battle_type = "boss" /\ pc = "returned") =>
       IF BestPositions # {}
       THEN second_action.skill_id = BossSkills[FirstOf(BestPositions)]
       ELSE second_action.skill_id \in Range(BossSkills)

\* the boss chose the first of two different, equally good moves that
\* follow a weaker one
C31_TieAfterWeakerMove ==
    /\ pc = "returned"
    /\ Len(BossSkills) = 3
    /\ BestPositions = {2, 3}
    /\ BossSkills[2] # BossSkills[3]
    /\ second_action.skill_id = BossSkills[2]

\* no move of the boss has a positive score and it chose one the
\* configuration lacks
C31_FallbackToRandom ==
    /\ pc = "returned"
    /\ BestPositions = {}
    /\ Len(BossSkills) > 1
    /\ ~HasSkill(second_action.skill_id)

\* the step is an end-of-turn phase (_process_turn_end)
TurnEndPhase == pc = "turn_end" /\ pc' = "check3"

\* C33: a weather whose counter is 0 is never changed by any step; a weather
\* with n > 0 turns left is changed by nothing but the end-of-turn phases,
\* each of which takes one turn off; the phase that finds 1 turn left sets
\* the neutral weather with an event message and leaves the counter at 0
C33_WeatherRunsOutAtItsCounter ==
    [][ /\ weather_turns = 0 => (weather' = weather /\ weather_turns' = 0)
        /\ ~TurnEndPhase => (weather' = weather /\ weather_turns' = weather_turns)
        /\ (TurnEndPhase /\ weather_turns > 1)
              => /\ weather' = weather
                 /\ weather_turns' = weather_turns - 1
                 /\ ~Said(AppendedMessages, "weather_cleared")
        /\ (TurnEndPhase /\ weather_turns = 1)
              => /\ weather' = "clear"
                 /\ weather_turns' = 0
                 /\ Said(AppendedMessages, "weather_cleared") ]_vars

\* a hail that began with 2 turns left has ended at the second end-of-turn
\* phase
C33_HailEndedInSecondTurn ==
    /\ pc = "check3"
    /\ turn_count = 2
    /\ result.weather = "hail"
    /\ weather = "clear"
    /\ weather_turns = 0
    /\ Said(result.messages, "weather_cleared")


\* C34: no step raises the current HP of a monster whose HP is 0: a fainted
\* monster of either team is still at HP 0 after every heal item, full
\* restore, heal effect, drain heal and end-of-turn regen tick
C34_FaintedStaysAtZero ==
    [][ /\ \A i \in DOMAIN player_team :
              player_team[i].current_hp = 0 => player_team'[i].current_hp = 0
        /\ \A i \in DOMAIN enemy_team :
              enemy_team[i].current_hp = 0 => enemy_team'[i].current_hp = 0 ]_vars


\* the battle after the monster about to act has lost its status
WokenBattle == SetActive(Battle, ActsNextIsPlayer, [ActsNext EXCEPT !.status = "none"])

\* the step executes an attack of a monster with the status st
GatedAttack(st) ==
    /\ pc \in {"first", "second"}
    /\ ActionNext.action_type = "skill"
    /\ ActsNext.status = st

\* C35: the status gate comes first in an attack.  An asleep, frozen or
\* paralyzed attacker that forfeits its action changes nothing: the battle
\* state is the same, the action is recorded with no damage and the gate's
\* message alone.  An asleep or frozen attacker either forfeits or wakes,
\* and when it wakes the step is the wake-up message followed by what the
\* same attack does when made by the same monster without a status: its
\* status is none afterwards and the move is used in the same action
C35_StatusGateComesFirst ==
    [][ /\ \A st \in {"sleep", "freeze", "paralyze"} :
              (GatedAttack(st) /\ Said(LastAction.messages, "cannot_move")) =>
                 /\ Battle' = Battle
                 /\ LastAction = ActionResult(TRUE, <<"cannot_move">>, 0)
                 /\ result'.messages = result.messages \o <<"cannot_move">>
        /\ \A st \in {"sleep", "freeze"} :
              (GatedAttack(st) /\ ~Said(LastAction.messages, "cannot_move")) =>
                 /\ Head(LastAction.messages) = "woke_up"
                 /\ Said(LastAction.messages, "used_skill")
                 /\ AttackerAfter.status = "none"
                 /\ \E o \in ExecuteSkill(WokenBattle, ActionNext, ActsNextIsPlayer) :
                       /\ Battle' = o.b
                       /\ LastAction = [o.r EXCEPT !.messages = <<"woke_up">> \o @] ]_vars

\* C35 witness: the frozen p2 thawed and its ember hurt the enemy in the
\* same action
C35_ThawedAndAttacked ==
    /\ pc = "check1"
    /\ first_is_player
    /\ first_action = SkillAction("ember")
    /\ result.actions[1].messages[1] = "woke_up"
    /\ result.actions[1].damage > 0
    /\ result.weather = "clear"
    /\ player_team[1].status = "none"
    /\ enemy_team[1].current_hp < E2.max_hp
    /\ turn_count = 1

\* C35 witness: the sleeping enemy forfeited its action after the player's
\* barrier, and is still asleep and everything else as it was
C35_SleeperForfeited ==
    /\ pc = "check2"
    /\ first_is_player
    /\ first_action = SkillAction("barrier")
    /\ result.actions[2] = ActionResult(TRUE, <<"cannot_move">>, 0)
    /\ enemy_team[1].status = "sleep"
    /\ turn_count = 1


\* the step is one of the three termination checks of process_turn
CheckStep == pc \in {"check1", "check2", "check3"}

\* the 0-based index i is the first enemy team member with HP > 0
FirstLivingEnemy(i) ==
    /\ i \in 0..(Len(enemy_team) - 1)
    /\ enemy_team[i + 1].current_hp > 0
    /\ \A j \in 0..(i - 1) : enemy_team[j + 1].current_hp <= 0

\* C36: after every termination check that leaves the battle active the
\* enemy's active monster has HP > 0: the check changes no monster, keeps
\* the active index of an enemy that has HP > 0, and moves the index of a
\* fainted one to the first enemy team member with HP > 0
C36_EnemyActiveAliveAfterCheck ==
    [][ (CheckStep /\ ~result'.battle_ended) =>
           /\ enemy_team' = enemy_team
           /\ enemy_team'[enemy_active_index' + 1].current_hp > 0
           /\ IF enemy_team[enemy_active_index + 1].current_hp <= 0
              THEN FirstLivingEnemy(enemy_active_index')
              ELSE enemy_active_index' = enemy_active_index ]_vars

\* C36 witness: the first enemy moved first and fainted to the player's
\* action, and the check after it sent out the second member, not the
\* third, before the end-of-turn phase
C36_SecondMemberSentOut ==
    /\ pc = "turn_end"
    /\ ~first_is_player
    /\ enemy_team[1].current_hp = 0
    /\ enemy_team[2].current_hp > 0
    /\ enemy_team[3].current_hp > 0
    /\ enemy_active_index = 1
    /\ result.enemy_monster_fainted
    /\ Said(result.messages, "enemy_sent_out")


\* what one end-of-turn tick takes from the monster m: a sixteenth of its
\* max HP for a burn, an eighth for poison, rounded down, at least 1
TickOf(m) ==
    IF m.status = "burn"
    THEN (IF m.max_hp \div 16 >= 1 THEN m.max_hp \div 16 ELSE 1)
    ELSE (IF m.max_hp \div 8 >= 1 THEN m.max_hp \div 8 ELSE 1)

\* the HP of m after a tick
Ticked(m) == IF m.current_hp > TickOf(m) THEN m.current_hp - TickOf(m) ELSE 0

\* the enemy's monster, burned or poisoned since the battle began at full HP
Afflicted == enemy_team[1]

\* between two turns the afflicted monster has lost one tick for each
\* completed turn, and has fainted, ending the battle, once the ticks make
\* up its max HP
TickedDown ==
    pc = "idle" =>
       /\ Afflicted.current_hp >= 0
       /\ Afflicted.current_hp =
             (IF Afflicted.max_hp > turn_count * TickOf(Afflicted)
              THEN Afflicted.max_hp - turn_count * TickOf(Afflicted) ELSE 0)
       /\ (turn_count * TickOf(Afflicted) >= Afflicted.max_hp)
             => (Afflicted.current_hp = 0 /\ ~is_active)

\* C37: each end-of-turn phase takes max(1, floor(maxHP / 16)) HP from a
\* burned and max(1, floor(maxHP / 8)) HP from a poisoned active monster
\* that has HP > 0, never taking it below 0, and nothing else changes its
\* HP when it is neither attacked nor healed; so after n completed turns it
\* has lost n ticks, and it has fainted once n ticks make up its max HP
C37_StatusTicksUntilFainted ==
    [][ /\ (pc = "turn_end" /\ Afflicted.current_hp > 0) =>
              /\ Afflicted'.current_hp = Ticked(Afflicted)
              /\ Afflicted'.current_hp < Afflicted.current_hp
              /\ Said(AppendedMessages,
                      IF Afflicted.status = "burn" THEN "burn_damage" ELSE "poison_damage")
        /\ (pc # "turn_end" \/ Afflicted.current_hp = 0) =>
              Afflicted'.current_hp = Afflicted.current_hp
        /\ Afflicted'.status = Afflicted.status
        /\ TickedDown
        /\ TickedDown' ]_vars

\* C37 witness: the burned monster of max HP 33 lost 2 HP in each of 16
\* turns and its last HP in the 17th
C37_BurnedOutInSeventeenTurns ==
    /\ pc = "idle"
    /\ turn_count = 17
    /\ Afflicted.status = "burn"
    /\ Afflicted.max_hp = 33
    /\ Afflicted.current_hp = 0
    /\ ~is_active
    /\ result.winner = "player"
    /\ Said(result.messages, "burn_damage")

\* C37 witness: the poisoned monster of max HP 7 has lost 1 HP in the
\* first end-of-turn phase
C37_PoisonTickOfOne ==
    /\ pc = "check3"
    /\ turn_count = 1
    /\ Afflicted.status = "poison"
    /\ Afflicted.max_hp = 7
    /\ Afflicted.current_hp = 6
    /\ Said(result.messages, "poison_damage")


\* the enemy's action comes second and the check after the player's action
\* has sent out a replacement for the enemy monster it was generated for
QueuedForFainted ==
    /\ pc = "second"
    /\ first_is_player
    /\ second_action.action_type = "skill"
    /\ result.enemy_monster_fainted

CatchRejections == {"cannot_catch", "no_ball_chosen", "not_a_ball", "ball_not_held"}

\* the step is a whole process_turn call with a CATCH action
CatchCall ==
    /\ pc = "idle"
    /\ pc' = "idle"
    /\ Len(result'.messages) = 1
    /\ result'.messages[1] \in CatchRejections \cup {"caught", "broke_free"}

\* the player holds no capture tool
NoBallHeld ==
    \A id \in DOMAIN inventory : ItemTable[id].type = "capture" => inventory[id] = 0

\* C39: a capture attempt that is rejected before resolution (can_catch is
\* false, no ball id was given, the id is no capture tool, or the player
\* does not hold the tool) debits nothing, rolls nothing and leaves the
\* battle as active as it was: when can_catch is false or no tool is held
\* every attempt is rejected, a rejected attempt changes neither the
\* inventory nor any monster nor is_active and ends nothing, and only a
\* resolved attempt debits a tool
C39_RejectedCaptureIsFree ==
    [][ CatchCall =>
           /\ (~can_catch \/ NoBallHeld) => result'.messages[1] \in CatchRejections
           /\ result'.messages[1] \in CatchRejections =>
                 /\ inventory' = inventory
                 /\ is_active' = is_active
                 /\ ~result'.battle_ended
                 /\ result'.winner = ""
                 /\ result'.caught_monster = ""
                 /\ player_team' = player_team
                 /\ enemy_team' = enemy_team
                 /\ <<exp_gained', coins_gained', items_dropped'>>
                       = <<exp_gained, coins_gained, items_dropped>>
           /\ result'.messages[1] \notin CatchRejections => inventory' # inventory ]_vars

\* C39 witness: the only ball went into a failed attempt and the second
\* attempt was rejected for want of a ball, the battle still going
C39_SecondAttemptWithoutBall ==
    /\ pc = "idle"
    /\ turn_count = 2
    /\ result.messages = <<"ball_not_held">>
    /\ inventory["ball"] = 0
    /\ is_active
    /\ can_catch

\* C39 witness: the boss cannot be caught, the ball is still held
C39_BossAttemptRejected ==
    /\ pc = "idle"
    /\ result.messages = <<"cannot_catch">>
    /\ inventory["ball"] = 1
    /\ is_active
    /\ battle_type = "boss"

\* C39 witness: an attempt without a ball id was rejected
C39_NoBallChosen ==
    /\ pc = "idle"
    /\ result.messages = <<"no_ball_chosen">>
    /\ inventory["ball"] = 1
    /\ is_active

====
